---- MODULE Spec2Model ----
(***************************************************************************)
(* Block ingestion core of block-watcher: the EvmBlock table with its two  *)
(* unique indexes, EvmBlocksService (getLatest, byNumber, upsertBlocks,    *)
(* findMissingFullRange) and the two cron handlers of EvmWatcherProvider   *)
(* (handleCron/tick and scanTipWindows/scanClientTip).                     *)
(***************************************************************************)
EXTENDS Integers, Sequences, FiniteSets, TLC

(***************************************************************************)
(* Bounds and program constants                                            *)
(***************************************************************************)
\* highest block height of the scheduler specification
MaxNumber == 2
\* highest block height and longest batch of the upsertBlocks specification
BatchMaxNumber == 1
MaxBatchLen == 2
\* highest block height and longest batch of the two-chain specification
ChainsMaxNumber == 2
ChainsMaxBatchLen == 2
\* highest block height of the findMissingFullRange specification, and the
\* most rows written by others while one call is running
GapMaxNumber == 12
GapMaxWrites == 1
\* most instances of one handler started while another one is running
MaxOverlap == 1
\* highest block height of the gap-fill specification
FillMaxNumber == 6
\* highest block height of the specification of the scan over several chains
ScansMaxNumber == 3
\* highest block height of the truncation specification: room for more than
\* limit missing heights spread over several gaps
TruncMaxNumber == 13
\* highest stored height of the repair specifications: room for more than
\* limit missing heights between the lowest and the highest row
RepairMaxNumber == 12
\* most heights stored between the lowest and the highest row when two
\* instances of a handler are called
OverlapMaxStored == 2
\* const limit = 10 in findMissingFullRange
limit == 10

\* chain ids the RPC gateway is configured with: the constructor registers
\* the client of chain 1
Chains == {1}
\* chain ids rows are stored under by callers of upsertBlocks
StoreChains == {1, 2}
\* a missing value (JavaScript null / undefined) where a string, a height or
\* a row is expected
NULL == "null"
NoNumber == 0 - 1
NoRow == [chainId |-> 0, number |-> NoNumber, hash |-> NULL,
          parentHash |-> NULL, timestamp |-> 0]
\* block hashes an RPC endpoint can answer with
Hashes == {"0xa", "0xb", "0xc"}
BatchHashes == {"0xa", "0xb"}

\* A block hash is a digest of the header, so it determines the other fields.
ParentOf(h) == IF h = NULL THEN NULL ELSE "0xp" \o h
TimestampOf(h) == IF h = "0xa" THEN 1700000000
                  ELSE IF h = "0xb" THEN 1700000012 ELSE 1700000024

\* the block object an RPC endpoint returns for height n with hash h
Block(n, h) ==
    [number |-> n, hash |-> h, parentHash |-> ParentOf(h),
     timestamp |-> TimestampOf(h)]

\* the EvmBlockInsert record the watcher builds from an RPC block
mapped(chainId, b) ==
    [chainId |-> chainId, number |-> b.number, hash |-> b.hash,
     parentHash |-> b.parentHash, timestamp |-> b.timestamp]

\* the row (chainId, n) carrying the header with hash h
Row(chainId, n, h) == mapped(chainId, Block(n, h))

(***************************************************************************)
(* The EvmBlock table                                                      *)
(***************************************************************************)
\* "hash" TEXT NOT NULL, "parentHash" TEXT NOT NULL
NotNull(r) == r.hash # NULL /\ r.parentHash # NULL

\* CREATE UNIQUE INDEX uq_evm_chain_number ON EvmBlock(chainId, number)
uq_evm_chain_number(x, r) == x.chainId = r.chainId /\ x.number = r.number

\* a unique index on hash alone
uq_evm_hash(x, r) == x.hash = r.hash

\* CREATE UNIQUE INDEX uq_evm_chain_hash ON EvmBlock(chainId, hash)
uq_evm_chain_hash(x, r) == x.chainId = r.chainId /\ x.hash = r.hash

\* Conflicts without the index on (chainId, hash)
ConflictsOnNumberOnly(s, r) == \E x \in s : uq_evm_chain_number(x, r)

\* r would violate a unique index of table s
Conflicts(s, r) ==
    \E x \in s : uq_evm_chain_number(x, r) \/ uq_evm_chain_hash(x, r)

\* InsertRow as ON CONFLICT (chainId, number) DO UPDATE
InsertRowOverwrites(acc, r) ==
    LET others == {x \in acc.rows : ~uq_evm_chain_number(x, r)}
    IN  IF \E x \in others : uq_evm_chain_hash(x, r)
        THEN acc
        ELSE [rows |-> others \cup {r}, count |-> acc.count + 1]

\* InsertRow counting every row it is given, inserted or skipped
InsertRowCountsSkipped(acc, r) ==
    IF Conflicts(acc.rows, r)
    THEN [rows |-> acc.rows, count |-> acc.count + 1]
    ELSE [rows |-> acc.rows \cup {r}, count |-> acc.count + 1]

\* INSERT ... ON CONFLICT DO NOTHING of one row; acc = [rows, count]
InsertRow(acc, r) ==
    IF Conflicts(acc.rows, r)
    THEN acc
    ELSE [rows |-> acc.rows \cup {r}, count |-> acc.count + 1]

\* InsertRows giving up at the first row that is skipped
RECURSIVE InsertRowsStopAtDuplicate(_, _)
InsertRowsStopAtDuplicate(acc, input) ==
    IF input = << >> \/ Conflicts(acc.rows, Head(input))
    THEN acc
    ELSE InsertRowsStopAtDuplicate(
             [rows |-> acc.rows \cup {Head(input)}, count |-> acc.count + 1],
             Tail(input))

\* InsertRows that inserts only rows new to the table it started from and
\* does not see the rows it has added itself
InsertRowsAgainstSnapshot(acc, input) ==
    LET new == {input[i] : i \in {j \in 1..Len(input) :
                                     ~Conflicts(acc.rows, input[j])}}
    IN  [rows |-> acc.rows \cup new, count |-> acc.count + Cardinality(new)]

\* the rows of one INSERT statement are processed in the order given
RECURSIVE InsertRows(_, _)
InsertRows(acc, input) ==
    IF input = << >>
    THEN acc
    ELSE InsertRows(InsertRow(acc, Head(input)), Tail(input))

\* the leading rows of data up to the first one breaking NOT NULL
RECURSIVE ValidPrefix(_)
ValidPrefix(data) ==
    IF data = << >> \/ ~NotNull(Head(data))
    THEN << >>
    ELSE << Head(data) >> \o ValidPrefix(Tail(data))

\* createMany issuing one INSERT per row, outside a transaction
createManyRowByRow(s, data) ==
    LET acc == InsertRows([rows |-> s, count |-> 0], ValidPrefix(data))
    IN  IF \E i \in 1..Len(data) : ~NotNull(data[i])
        THEN [status |-> "ConstraintViolation", rows |-> acc.rows, count |-> 0]
        ELSE [status |-> "ok", rows |-> acc.rows, count |-> acc.count]

\* createMany without skipDuplicates: a duplicate rejects the statement
createManyNoSkip(s, data) ==
    LET acc == InsertRows([rows |-> s, count |-> 0], data)
    IN  IF (\E i \in 1..Len(data) : ~NotNull(data[i]))
           \/ acc.count # Len(data)
        THEN [status |-> "ConstraintViolation", rows |-> s, count |-> 0]
        ELSE [status |-> "ok", rows |-> acc.rows, count |-> acc.count]

\* prisma.evmBlock.createMany({ data, skipDuplicates: true }): one statement,
\* rejected as a whole when a row breaks a NOT NULL constraint
createMany(s, data) ==
    IF \E i \in 1..Len(data) : ~NotNull(data[i])
    THEN [status |-> "ConstraintViolation", rows |-> s, count |-> 0]
    ELSE LET acc == InsertRows([rows |-> s, count |-> 0], data)
         IN  [status |-> "ok", rows |-> acc.rows, count |-> acc.count]

\* upsertBlocks calling createMany without skipDuplicates
upsertBlocksPlainInsert(s, input) == createManyNoSkip(s, input)

\* EvmBlocksService.upsertBlocks
upsertBlocks(s, input) == createMany(s, input)

\* EvmBlocksService.getLatest: the row of the chain with the highest number
getLatest(s, chainId) ==
    LET rows == {r \in s : r.chainId = chainId}
    IN  IF rows = {} THEN NoRow
        ELSE CHOOSE r \in rows : \A x \in rows : x.number <= r.number

\* EvmBlocksService.byNumber
byNumber(s, chainId, num) ==
    LET rows == {r \in s : r.chainId = chainId /\ r.number = num}
    IN  IF rows = {} THEN NoRow ELSE CHOOSE r \in rows : TRUE

\* the stored heights of a chain
numbers(s, chainId) == {r.number : r \in {x \in s : x.chainId = chainId}}

\* findFirst({ where: { chainId }, orderBy: { number: "asc" } })
firstNumber(s, chainId) ==
    LET N == numbers(s, chainId)
    IN  IF N = {} THEN NoNumber ELSE CHOOSE n \in N : \A m \in N : n <= m

\* findFirst({ where: { chainId }, orderBy: { number: "desc" } })
lastNumber(s, chainId) ==
    LET N == numbers(s, chainId)
    IN  IF N = {} THEN NoNumber ELSE CHOOSE n \in N : \A m \in N : m <= n

\* a finite set of integers as an ascending sequence
RECURSIVE Ascending(_)
Ascending(N) ==
    IF N = {} THEN << >>
    ELSE LET n == CHOOSE x \in N : \A y \in N : x <= y
         IN  << n >> \o Ascending(N \ {n})

\* the first k elements of a sequence
Take(q, k) == SubSeq(q, 1, IF Len(q) < k THEN Len(q) ELSE k)

\* queryRanges returning the ranges highest first
queryRangesDescending(s, chainId, from, to) ==
    LET ordered == {n \in numbers(s, chainId) : from <= n /\ n <= to}
        next_number(n) ==
            LET later == {m \in ordered : m > n}
            IN  IF later = {} THEN NoNumber
                ELSE CHOOSE m \in later : \A k \in later : m <= k
        gaps == {n \in ordered : /\ next_number(n) # NoNumber
                                 /\ next_number(n) > n + 1}
        rows == [i \in 1..Cardinality(gaps) |->
                    LET n == Ascending(gaps)[Cardinality(gaps) + 1 - i]
                    IN  [start_missing |-> n + 1,
                         end_missing |-> next_number(n) - 1]]
    IN  Take(rows, limit)

\* queryRanges with o."number" in place of o."number" + 1 as start_missing
queryRangesFromStored(s, chainId, from, to) ==
    LET ordered == {n \in numbers(s, chainId) : from <= n /\ n <= to}
        next_number(n) ==
            LET later == {m \in ordered : m > n}
            IN  IF later = {} THEN NoNumber
                ELSE CHOOSE m \in later : \A k \in later : m <= k
        gaps == {n \in ordered : /\ next_number(n) # NoNumber
                                 /\ next_number(n) > n + 1}
        rows == [i \in 1..Cardinality(gaps) |->
                    [start_missing |-> Ascending(gaps)[i],
                     end_missing |-> next_number(Ascending(gaps)[i]) - 1]]
    IN  Take(rows, limit)

\* The raw query of findMissingFullRange: the chain's heights between from and
\* to, each with its successor (LEAD ... OVER (ORDER BY number)); one output
\* row per height whose successor is not the next height; LIMIT limit.  The
\* rows come out in the order of the window, ascending by number.
queryRanges(s, chainId, from, to) ==
    LET ordered == {n \in numbers(s, chainId) : from <= n /\ n <= to}
        next_number(n) ==
            LET later == {m \in ordered : m > n}
            IN  IF later = {} THEN NoNumber
                ELSE CHOOSE m \in later : \A k \in later : m <= k
        gaps == {n \in ordered : /\ next_number(n) # NoNumber
                                 /\ next_number(n) > n + 1}
        rows == [i \in 1..Cardinality(gaps) |->
                    [start_missing |-> Ascending(gaps)[i] + 1,
                     end_missing |-> next_number(Ascending(gaps)[i]) - 1]]
    IN  Take(rows, limit)

\* pushRange without the test of missing.length
RECURSIVE pushRangeUnbounded(_, _, _)
pushRangeUnbounded(missing, n, end_missing) ==
    IF n <= end_missing
    THEN pushRangeUnbounded(Append(missing, n), n + 1, end_missing)
    ELSE missing

\* pushRange with n < end in place of n <= end
RECURSIVE pushRangeExclusive(_, _, _)
pushRangeExclusive(missing, n, end_missing) ==
    IF n < end_missing /\ Len(missing) < limit
    THEN pushRangeExclusive(Append(missing, n), n + 1, end_missing)
    ELSE missing

\* the inner loop: for (n = start; n <= end && missing.length < limit; n++)
RECURSIVE pushRange(_, _, _)
pushRange(missing, n, end_missing) ==
    IF n <= end_missing /\ Len(missing) < limit
    THEN pushRange(Append(missing, n), n + 1, end_missing)
    ELSE missing

\* collectMissing leaving the loop after the first range
collectMissingFirstRange(ranges, missing) ==
    IF ranges = << >> THEN missing
    ELSE pushRange(missing, Head(ranges).start_missing,
                   Head(ranges).end_missing)

\* the outer loop: for (const r of ranges) { ...; if (length >= limit) break }
RECURSIVE collectMissing(_, _)
collectMissing(ranges, missing) ==
    IF ranges = << >> THEN missing
    ELSE LET m == pushRange(missing, Head(ranges).start_missing,
                            Head(ranges).end_missing)
         IN  IF Len(m) >= limit THEN m
             ELSE collectMissing(Tail(ranges), m)

\* missingBetween that also proposes the height after the highest stored one
missingBetweenPastLast(s, chainId, first, last) ==
    IF first = NoNumber \/ last = NoNumber THEN << >>
    ELSE IF last < first THEN << >>
    ELSE pushRange(collectMissing(queryRanges(s, chainId, first, last), << >>),
                   last + 1, last + 1)

\* findMissingFullRange after its two findFirst reads returned first and last
missingBetween(s, chainId, first, last) ==
    IF first = NoNumber \/ last = NoNumber THEN << >>
    ELSE IF last < first THEN << >>
    ELSE collectMissing(queryRanges(s, chainId, first, last), << >>)

\* findMissingFullRange when nothing is written between its three reads
findMissingFullRange(s, chainId) ==
    missingBetween(s, chainId, firstNumber(s, chainId), lastNumber(s, chainId))

(***************************************************************************)
(* ViemRpcService: chain definitions, configuration and the clients map    *)
(***************************************************************************)
\* the Chain objects imported from viem/chains, by their id and name
mainnet == [id |-> 1, name |-> "Ethereum"]
optimism == [id |-> 10, name |-> "OP Mainnet"]
polygon == [id |-> 137, name |-> "Polygon"]
arbitrum == [id |-> 42161, name |-> "Arbitrum One"]
base == [id |-> 8453, name |-> "Base"]
sepolia == [id |-> 11155111, name |-> "Sepolia"]

\* viemChainById with a default branch that knows no chain
viemChainByIdNoDefault(id) ==
    CASE id = 1 -> mainnet
      [] id = 10 -> optimism
      [] id = 137 -> polygon
      [] id = 42161 -> arbitrum
      [] id = 8453 -> base
      [] id = 11155111 -> sepolia
      [] OTHER -> [id |-> id, name |-> NULL]

\* switch (id) { case 1: return mainnet; ... default: return mainnet; }
viemChainById(id) ==
    CASE id = 1 -> mainnet
      [] id = 10 -> optimism
      [] id = 137 -> polygon
      [] id = 42161 -> arbitrum
      [] id = 8453 -> base
      [] id = 11155111 -> sepolia
      [] OTHER -> mainnet

\* the environment the process is started with: mainnet and chain 10 have a
\* URL, as has chain 56, which viemChainById does not list; chain 137 and
\* chain 99999 have none
env ==
    [RPC_ETH_MAINNET_URL |-> "https://eth.example",
     RPC_CHAIN_10_URL |-> "https://op.example",
     RPC_CHAIN_56_URL |-> "https://bsc.example"]

\* ConfigService.get(key, defaultValue)
configGet(key, defaultValue) ==
    IF key \in DOMAIN env THEN env[key] ELSE defaultValue

\* the key `RPC_CHAIN_${chainId}_URL`
RPC_CHAIN_URL(chainId) == "RPC_CHAIN_" \o ToString(chainId) \o "_URL"

\* createPublicClient({ chain, transport: http(url) }): a new object, told
\* from every other client by the count of clients created before it
createPublicClient(chain, url, created) ==
    [chain |-> chain, url |-> url, created |-> created]

\* Map.prototype.has / get / set on a map kept as the sequence of its
\* entries in insertion order; set on a present key replaces the value in
\* place, on a new key it appends
MapHas(m, k) == \E i \in 1..Len(m) : m[i].key = k
MapGet(m, k) == m[CHOOSE i \in 1..Len(m) : m[i].key = k].value
MapSet(m, k, v) ==
    IF MapHas(m, k)
    THEN [i \in 1..Len(m) |-> IF m[i].key = k THEN [key |-> k, value |-> v]
                                               ELSE m[i]]
    ELSE Append(m, [key |-> k, value |-> v])

\* the clients map after the constructor: the client of chain 1
constructor ==
    MapSet(<< >>, 1,
           createPublicClient(viemChainById(1),
                              configGet("RPC_ETH_MAINNET_URL", ""), 1))

\* no gateway operation has been called yet
NoRpcCall ==
    [op |-> "none", chainId |-> 0, existing |-> FALSE,
     client |-> createPublicClient(mainnet, "", 0), status |-> "none",
     number |-> NoNumber, name |-> NULL, ids |-> << >>]

(***************************************************************************)
(* Application life cycle and Read API values                              *)
(***************************************************************************)
\* the application after bootstrap: modules initialised, PrismaService
\* connected, cron jobs started
Bootstrapped == [phase |-> "running", connected |-> TRUE, signalled |-> FALSE]

\* null where findFirst resolves to an EvmBlock with 64-bit fields
NoBlock ==
    [id |-> << 0, 0 >>, chainId |-> 0, number |-> << 0, 0 - 1 >>,
     hash |-> NULL, parentHash |-> NULL, timestamp |-> << 0, 0 >>]

\* no HTTP request has been answered yet.  A reply holds the route and the
\* path parameters of the request, the status and body sent, how the store
\* call of the handler ended ("none" when no call was made) and the row it
\* resolved to.
NoReply ==
    [route |-> "none", chainId |-> << >>, number |-> << >>, status |-> 0,
     store |-> "none", row |-> NoBlock, body |-> [ok |-> FALSE]]

\* MetricsService and a request whose response has not ended: nothing is
\* observed
NoObservation ==
    [req |-> [method |-> << >>, route |-> << >>, path |-> << >>,
              statusCode |-> 0],
     ended |-> FALSE,
     labels |-> [method |-> << >>, route |-> << >>, status_code |-> << >>]]

(***************************************************************************)
(* State                                                                   *)
(***************************************************************************)
VARIABLES
    store,      \* the rows of table EvmBlock
    lastCall,   \* the last upsertBlocks call: input, outcome, table before it,
                \* and whether it repeated the batch of the call before
    solo,       \* per chain, the table had only that chain's rows been sent
    head,       \* handleCron: await position, chains left, locals, and the
                \* insert record and outcome of its last work unit
    scan,       \* scanTipWindows: await position, chains left, locals, and
                \* the insert records and outcome of its last work unit
    gap,        \* a direct findMissingFullRange call: await position, locals
    overlapping, \* per handler, the instances started by the scheduler
                \* while the instance followed in head / scan had not returned
    clients,    \* ViemRpcService.clients: the entries of the map in
                \* insertion order
    rpcCall,    \* the last operation called on ViemRpcService and its result
    app,        \* life cycle of the Nest application: phase, whether
                \* PrismaService is connected, whether a signal has arrived
    reply,      \* the last request answered by EvmBlocksController
    metrics,    \* MetricsService: the last observation of
                \* http_server_requests_seconds and the request it is of
    second      \* a second instance of a handler called while the first
                \* has not returned: the handler, the instance that is
                \* suspended at an await while the other one runs in head /
                \* scan, and the table when the two were called

\* the state the ingestion handlers and the store leave alone: the handlers
\* call the gateway with configured chain ids only, whose clients exist
outside == <<clients, rpcCall, app, reply, metrics, second>>

vars == <<store, lastCall, solo, head, scan, gap, overlapping, outside>>

NoCall ==
    [input |-> << >>, status |-> "none", count |-> 0, before |-> {},
     again |-> FALSE]

\* no instance of the handler is running; log holds, chain after chain, how
\* the work units of the current or the last run ended
Idle == [pc |-> "idle", chains |-> << >>, first |-> NoNumber,
         last |-> NoNumber, missing |-> << >>, data |-> << >>,
         outcome |-> "none", log |-> << >>]

NoGapCall == [pc |-> "idle", chainId |-> 0, first |-> NoNumber,
              last |-> NoNumber, writes |-> 0, missing |-> << >>]

NoOverlap == [handleCron |-> 0, scanTipWindows |-> 0]

\* no second instance of a handler has been called
NoSecond == [handler |-> "none", instance |-> Idle, store |-> {}]

Init ==
    /\ store = {}
    /\ lastCall = NoCall
    /\ solo = [c \in StoreChains |-> {}]
    /\ head = Idle
    /\ scan = Idle
    /\ gap = NoGapCall
    /\ overlapping = NoOverlap
    /\ clients = constructor
    /\ rpcCall = NoRpcCall
    /\ app = Bootstrapped
    /\ reply = NoReply
    /\ metrics = NoObservation
    /\ second = NoSecond

\* input is the batch of the call before, which succeeded
Replays(input) == lastCall.status = "ok" /\ lastCall.input = input

\* the rows of a batch that belong to one chain
OnlyChain(input, chainId) == SelectSeq(input, LAMBDA r : r.chainId = chainId)

\* upsertBlocks(input) runs against the table
Commit(input) ==
    LET r == upsertBlocks(store, input)
    IN  /\ store' = r.rows
        /\ solo' = [c \in StoreChains |->
                       IF r.status = "ok"
                       THEN upsertBlocks(solo[c], OnlyChain(input, c)).rows
                       ELSE solo[c]]

\* a direct call of upsertBlocks(input), recorded with its outcome
Upsert(input) ==
    LET r == upsertBlocks(store, input)
    IN  /\ Commit(input)
        /\ lastCall' = [input |-> input, status |-> r.status,
                        count |-> r.count, before |-> store,
                        again |-> Replays(input)]

\* the same call when the database cannot be reached: the promise rejects
UpsertUnavailable(input) ==
    /\ store' = store
    /\ solo' = solo
    /\ lastCall' = [input |-> input, status |-> "StoreUnavailable",
                    count |-> 0, before |-> store,
                    again |-> Replays(input)]

(***************************************************************************)
(* Specification of upsertBlocks alone: direct calls with any batch        *)
(***************************************************************************)
BatchRows ==
    {Row(1, n, h) : n \in 0..BatchMaxNumber, h \in BatchHashes \cup {NULL}}

RECURSIVE SeqsUpTo(_, _)
SeqsUpTo(S, n) ==
    IF n = 0 THEN {<< >>}
    ELSE LET shorter == SeqsUpTo(S, n - 1)
         IN  shorter \cup {Append(q, x) : q \in shorter, x \in S}

Batches == SeqsUpTo(BatchRows, MaxBatchLen)

BatchUpsert ==
    /\ \E input \in Batches : Upsert(input)
    /\ UNCHANGED <<outside, overlapping, head, scan, gap>>

BatchUnavailable ==
    /\ \E input \in Batches : UpsertUnavailable(input)
    /\ UNCHANGED <<outside, overlapping, head, scan, gap>>

NextUpsert == BatchUpsert \/ BatchUnavailable

SpecUpsert == Init /\ [][NextUpsert]_vars

(***************************************************************************)
(* EvmWatcherProvider: the head tick (handleCron / tick)                   *)
(***************************************************************************)
\* getConfiguredChainIds(): the keys of the clients map, in insertion order
configuredChainIds == Ascending(Chains)

Numbers == 0..MaxNumber

\* the chain the handler is working on
Current(p) == Head(p.chains)

\* NextTick without the try / catch around tick: an error ends the loop and
\* rejects the promise of handleCron
NextTickRethrows(p, outcome) ==
    IF outcome = "error"
    THEN [Idle EXCEPT !.outcome = "raised", !.log = Append(p.log, outcome)]
    ELSE IF Len(p.chains) > 1
    THEN [Idle EXCEPT !.pc = "getHeadNumber", !.chains = Tail(p.chains),
                      !.log = Append(p.log, outcome)]
    ELSE [Idle EXCEPT !.data = p.data, !.outcome = outcome,
                      !.log = Append(p.log, outcome)]

\* NextTick with a retry inside the tick: after an error the work unit of
\* the chain starts over
NextTickRetries(p, outcome) ==
    IF outcome = "error"
    THEN [p EXCEPT !.pc = "getHeadNumber", !.first = NoNumber, !.data = << >>]
    ELSE IF Len(p.chains) > 1
    THEN [Idle EXCEPT !.pc = "getHeadNumber", !.chains = Tail(p.chains),
                      !.log = Append(p.log, outcome)]
    ELSE [Idle EXCEPT !.data = p.data, !.outcome = outcome,
                      !.log = Append(p.log, outcome)]

\* the loop of handleCron moves to the next chain and issues getHeadNumber,
\* or returns after the last chain
NextTick(p, outcome) ==
    IF Len(p.chains) > 1
    THEN [Idle EXCEPT !.pc = "getHeadNumber", !.chains = Tail(p.chains),
                      !.log = Append(p.log, outcome)]
    ELSE [Idle EXCEPT !.data = p.data, !.outcome = outcome,
                      !.log = Append(p.log, outcome)]

\* handleCron when getConfiguredChainIds() returns ids: start the loop over
\* the chains (with no chain the handler returns at once).  The instance is
\* followed in head; a call made while it is running is handleCronOverlaps.
handleCronOf(ids) ==
    /\ head.pc = "idle"
    /\ ids # << >>
    /\ head' = [Idle EXCEPT !.pc = "getHeadNumber", !.chains = ids]
    /\ UNCHANGED <<outside, overlapping, store, lastCall, solo, scan, gap>>

\* @Cron(EVERY_5_SECONDS) handleCron
handleCron == handleCronOf(configuredChainIds)

\* tick: rpc.getHeadNumber resolves; getBlockByNumber(chainId, head) is issued
tick_getHeadNumber ==
    /\ head.pc = "getHeadNumber"
    /\ \E n \in Numbers :
          head' = [head EXCEPT !.pc = "getBlockByNumber", !.first = n]
    /\ UNCHANGED <<outside, overlapping, store, lastCall, solo, scan, gap>>

\* tick: an RPC call rejects or answers null; handleCron catches and logs
tick_rpcError ==
    /\ head.pc \in {"getHeadNumber", "getBlockByNumber"}
    /\ head' = NextTick([head EXCEPT !.data = << >>], "error")
    /\ UNCHANGED <<outside, overlapping, store, lastCall, solo, scan, gap>>

\* tick asking for a block without passing the height it has read
tick_getBlockByNumberAnyHeight ==
    /\ head.pc = "getBlockByNumber"
    /\ \E h \in Hashes \cup {NULL}, n \in Numbers :
          head' = [head EXCEPT
                      !.pc = "upsertBlocks",
                      !.data = << mapped(Current(head), Block(n, h)) >>]
    /\ UNCHANGED <<outside, overlapping, store, lastCall, solo, scan, gap>>

\* tick: rpc.getBlockByNumber resolves; upsertBlocks([row]) is issued
tick_getBlockByNumber ==
    /\ head.pc = "getBlockByNumber"
    /\ \E h \in Hashes \cup {NULL} :
          head' = [head EXCEPT
                      !.pc = "upsertBlocks",
                      !.data = << mapped(Current(head), Block(head.first, h)) >>]
    /\ UNCHANGED <<outside, overlapping, store, lastCall, solo, scan, gap>>

\* tick: upsertBlocks settles (a rejection is caught and logged by handleCron)
tick_upsertBlocks ==
    /\ head.pc = "upsertBlocks"
    /\ Commit(head.data)
    /\ head' = NextTick(head, IF upsertBlocks(store, head.data).status = "ok"
                              THEN "ok" ELSE "error")
    /\ UNCHANGED <<outside, overlapping, lastCall, scan, gap>>

tick_upsertUnavailable ==
    /\ head.pc = "upsertBlocks"
    /\ head' = NextTick(head, "error")
    /\ UNCHANGED <<outside, overlapping, store, solo, lastCall, scan, gap>>

(***************************************************************************)
(* EvmWatcherProvider: the gap scan (scanTipWindows / scanClientTip)       *)
(***************************************************************************)
\* the loop of scanTipWindows moves to the next chain and issues getLatest,
\* or returns after the last chain; outcome tells how the work unit of the
\* chain ended: "empty" (no blocks in DB yet), "complete" (no missing blocks
\* found), "ok" (synced) or "error" (caught and logged)
NextScan(p, outcome) ==
    IF Len(p.chains) > 1
    THEN [Idle EXCEPT !.pc = "getLatest", !.chains = Tail(p.chains),
                      !.log = Append(p.log, outcome)]
    ELSE [Idle EXCEPT !.data = p.data, !.outcome = outcome,
                      !.log = Append(p.log, outcome)]

\* scanTipWindows when getConfiguredChainIds() returns ids: start the loop
\* over the chains (with no chain the handler logs and returns at once).  The
\* instance is followed in scan; a call made while it is running is
\* scanTipWindowsOverlaps.
scanTipWindowsOf(ids) ==
    /\ scan.pc = "idle"
    /\ ids # << >>
    /\ scan' = [Idle EXCEPT !.pc = "getLatest", !.chains = ids]
    /\ UNCHANGED <<outside, overlapping, store, lastCall, solo, head, gap>>

\* onModuleInit / @Cron(EVERY_MINUTE) scanTipWindows
scanTipWindows == scanTipWindowsOf(configuredChainIds)

\* scanClientTip without the test of latest
scanClientTip_getLatestNoSkip ==
    /\ scan.pc = "getLatest"
    /\ scan' = [scan EXCEPT !.pc = "findFirstAsc"]
    /\ UNCHANGED <<outside, overlapping, store, lastCall, solo, head, gap>>

\* scanClientTip: getLatest resolves; without a row the chain is skipped,
\* otherwise findMissingFullRange issues its first findFirst
scanClientTip_getLatest ==
    /\ scan.pc = "getLatest"
    /\ scan' = IF getLatest(store, Current(scan)) = NoRow
               THEN NextScan(scan, "empty")
               ELSE [scan EXCEPT !.pc = "findFirstAsc"]
    /\ UNCHANGED <<outside, overlapping, store, lastCall, solo, head, gap>>

\* findMissingFullRange: the lowest stored height is read
scanClientTip_findFirstAsc ==
    /\ scan.pc = "findFirstAsc"
    /\ scan' = [scan EXCEPT !.pc = "findFirstDesc",
                            !.first = firstNumber(store, Current(scan))]
    /\ UNCHANGED <<outside, overlapping, store, lastCall, solo, head, gap>>

\* findMissingFullRange: the highest stored height is read
scanClientTip_findFirstDesc ==
    /\ scan.pc = "findFirstDesc"
    /\ scan' = [scan EXCEPT !.pc = "queryRaw",
                            !.last = lastNumber(store, Current(scan))]
    /\ UNCHANGED <<outside, overlapping, store, lastCall, solo, head, gap>>

\* scanClientTip without the test of missing.length
scanClientTip_findMissingNoSkip ==
    /\ scan.pc = "queryRaw"
    /\ LET missing ==
               missingBetween(store, Current(scan), scan.first, scan.last)
       IN  scan' = [scan EXCEPT !.pc = "getBlocks", !.missing = missing]
    /\ UNCHANGED <<outside, overlapping, store, lastCall, solo, head, gap>>

\* scanClientTip asking for every height between the lowest and the highest
\* row in place of the heights findMissingFullRange returns
scanClientTip_findMissingWholeRange ==
    /\ scan.pc = "queryRaw"
    /\ scan' = [scan EXCEPT
                   !.pc = "getBlocks",
                   !.missing = [i \in 1..(scan.last - scan.first - 1) |->
                                scan.first + i]]
    /\ UNCHANGED <<outside, overlapping, store, lastCall, solo, head, gap>>

\* findMissingFullRange returns; scanClientTip skips the chain when nothing is
\* missing, otherwise issues one getBlockByNumber per missing height
scanClientTip_findMissing ==
    /\ scan.pc = "queryRaw"
    /\ LET missing ==
               missingBetween(store, Current(scan), scan.first, scan.last)
       IN  scan' = IF missing = << >>
                   THEN NextScan(scan, "complete")
                   ELSE [scan EXCEPT !.pc = "getBlocks", !.missing = missing]
    /\ UNCHANGED <<outside, overlapping, store, lastCall, solo, head, gap>>

\* Promise.all resolves with a block for every missing height, the one of
\* height n having one of the hashes Answers[n]; the blocks are mapped to
\* insert records and upsertBlocks(data) is issued
scanClientTip_getBlocksOf(Answers) ==
    /\ scan.pc = "getBlocks"
    /\ \E hs \in [1..Len(scan.missing) -> UNION {Answers[scan.missing[i]] :
                                                 i \in 1..Len(scan.missing)}] :
          /\ \A i \in 1..Len(scan.missing) : hs[i] \in Answers[scan.missing[i]]
          /\ scan' = [scan EXCEPT
                         !.pc = "upsertBlocks",
                         !.data = [i \in 1..Len(scan.missing) |->
                                      mapped(Current(scan),
                                             Block(scan.missing[i], hs[i]))]]
    /\ UNCHANGED <<outside, overlapping, store, lastCall, solo, head, gap>>

\* the hashes an endpoint of any kind can answer with for height n
AnyHash == [n \in Nat |-> Hashes \cup {NULL}]

scanClientTip_getBlocks == scanClientTip_getBlocksOf(AnyHash)

\* scanClientTip upserting the blocks that came back when another request
\* failed (Promise.allSettled in place of Promise.all)
scanClientTip_rpcErrorKeepsFetched ==
    /\ scan.pc = "getBlocks"
    /\ \E failed \in 1..Len(scan.missing) :
          Commit(SelectSeq([i \in 1..Len(scan.missing) |->
                               mapped(Current(scan),
                                      Block(scan.missing[i],
                                            IF i = failed THEN NULL
                                            ELSE "0xa" \o ToString(i)))],
                           NotNull))
    /\ scan' = NextScan([scan EXCEPT !.data = << >>], "error")
    /\ UNCHANGED <<outside, overlapping, lastCall, head, gap>>

\* a request rejects or answers null: scanClientTip throws, scanTipWindows
\* catches and logs, nothing of the chain's scan is upserted
scanClientTip_rpcError ==
    /\ scan.pc = "getBlocks"
    /\ scan' = NextScan([scan EXCEPT !.data = << >>], "error")
    /\ UNCHANGED <<outside, overlapping, store, lastCall, solo, head, gap>>

\* scanClientTip_upsertBlocks with createMany called without skipDuplicates:
\* a row that is stored already rejects the statement
scanClientTip_upsertBlocksPlainInsert ==
    /\ scan.pc = "upsertBlocks"
    /\ LET r == upsertBlocksPlainInsert(store, scan.data)
       IN  /\ store' = r.rows
           /\ solo' = [solo EXCEPT ![Current(scan)] = r.rows]
           /\ scan' = NextScan(scan, IF r.status = "ok" THEN "ok"
                                     ELSE "error")
    /\ UNCHANGED <<outside, overlapping, lastCall, head, gap>>

\* upsertBlocks settles (a rejection is caught and logged by scanTipWindows)
scanClientTip_upsertBlocks ==
    /\ scan.pc = "upsertBlocks"
    /\ Commit(scan.data)
    /\ scan' = NextScan(scan, IF upsertBlocks(store, scan.data).status = "ok"
                              THEN "ok" ELSE "error")
    /\ UNCHANGED <<outside, overlapping, lastCall, head, gap>>

scanClientTip_upsertUnavailable ==
    /\ scan.pc = "upsertBlocks"
    /\ scan' = NextScan(scan, "error")
    /\ UNCHANGED <<outside, overlapping, store, solo, lastCall, head, gap>>

(***************************************************************************)
(* Specification of the scheduler: both timers and direct upsertBlocks     *)
(* calls, interleaved at every await                                       *)
(***************************************************************************)
DirectRows == {Row(c, n, h) : c \in Chains, n \in Numbers, h \in Hashes}

\* a caller other than the instances followed (an overlapping instance of a
\* handler, the e2e suites) upserts a row
DirectUpsert ==
    /\ \E r \in DirectRows : Commit(<< r >>)
    /\ UNCHANGED <<outside, overlapping, lastCall, head, scan, gap>>

Next ==
    \/ handleCron
    \/ tick_getHeadNumber
    \/ tick_rpcError
    \/ tick_getBlockByNumber
    \/ tick_upsertBlocks
    \/ tick_upsertUnavailable
    \/ scanTipWindows
    \/ scanClientTip_getLatest
    \/ scanClientTip_findFirstAsc
    \/ scanClientTip_findFirstDesc
    \/ scanClientTip_findMissing
    \/ scanClientTip_getBlocks
    \/ scanClientTip_rpcError
    \/ scanClientTip_upsertBlocks
    \/ scanClientTip_upsertUnavailable
    \/ DirectUpsert

Spec == Init /\ [][Next]_vars

(***************************************************************************)
(* Specification of the timers: the scheduler calls a handler at every     *)
(* period, whether or not the call before has returned.  One instance of   *)
(* each handler is followed await by await in head / scan; an instance     *)
(* started meanwhile is counted in overlapping and followed only in what   *)
(* it writes and in its return.                                            *)
(***************************************************************************)
\* @Cron(EVERY_5_SECONDS) fires while an instance of handleCron is running:
\* the handler is called again
handleCronOverlaps ==
    /\ head.pc # "idle"
    /\ overlapping.handleCron < MaxOverlap
    /\ overlapping' = [overlapping EXCEPT !.handleCron = @ + 1]
    /\ UNCHANGED <<outside, store, lastCall, solo, head, scan, gap>>

\* an overlapping instance of handleCron upserts the head it has fetched
overlapping_tick_upsertBlocks ==
    /\ overlapping.handleCron > 0
    /\ \E r \in DirectRows : Commit(<< r >>)
    /\ UNCHANGED <<outside, lastCall, head, scan, gap, overlapping>>

\* an overlapping instance of handleCron returns
overlapping_handleCron_returns ==
    /\ overlapping.handleCron > 0
    /\ overlapping' = [overlapping EXCEPT !.handleCron = @ - 1]
    /\ UNCHANGED <<outside, store, lastCall, solo, head, scan, gap>>

\* @Cron(EVERY_MINUTE) fires while an instance of scanTipWindows (the one
\* called by onModuleInit, or that of the minute before) is running
scanTipWindowsOverlaps ==
    /\ scan.pc # "idle"
    /\ overlapping.scanTipWindows < MaxOverlap
    /\ overlapping' = [overlapping EXCEPT !.scanTipWindows = @ + 1]
    /\ UNCHANGED <<outside, store, lastCall, solo, head, scan, gap>>

\* an overlapping instance of scanTipWindows upserts the blocks it has
\* fetched for heights it found missing
overlapping_scanClientTip_upsertBlocks ==
    /\ overlapping.scanTipWindows > 0
    /\ \E c \in Chains :
          \E N \in SUBSET {n \in Numbers : /\ firstNumber(store, c) < n
                                           /\ n < lastNumber(store, c)} :
             \E hs \in [N -> Hashes] :
                Commit([i \in 1..Cardinality(N) |->
                           Row(c, Ascending(N)[i], hs[Ascending(N)[i]])])
    /\ UNCHANGED <<outside, lastCall, head, scan, gap, overlapping>>

\* an overlapping instance of scanTipWindows returns
overlapping_scanTipWindows_returns ==
    /\ overlapping.scanTipWindows > 0
    /\ overlapping' = [overlapping EXCEPT !.scanTipWindows = @ - 1]
    /\ UNCHANGED <<outside, store, lastCall, solo, head, scan, gap>>

NextTimers ==
    \/ handleCron
    \/ handleCronOverlaps
    \/ tick_getHeadNumber
    \/ tick_rpcError
    \/ tick_getBlockByNumber
    \/ tick_upsertBlocks
    \/ tick_upsertUnavailable
    \/ overlapping_tick_upsertBlocks
    \/ overlapping_handleCron_returns
    \/ scanTipWindows
    \/ scanTipWindowsOverlaps
    \/ scanClientTip_getLatest
    \/ scanClientTip_findFirstAsc
    \/ scanClientTip_findFirstDesc
    \/ scanClientTip_findMissing
    \/ scanClientTip_getBlocks
    \/ scanClientTip_rpcError
    \/ scanClientTip_upsertBlocks
    \/ scanClientTip_upsertUnavailable
    \/ overlapping_scanClientTip_upsertBlocks
    \/ overlapping_scanTipWindows_returns

SpecTimers == Init /\ [][NextTimers]_vars

(***************************************************************************)
(* Specification of the head tick over several configured chains           *)
(***************************************************************************)
\* getConfiguredChainIds() of an RpcService configured with several chains
severalChainIds == Ascending(StoreChains)

handleCronSeveral == handleCronOf(severalChainIds)

NextTicks ==
    \/ handleCronSeveral
    \/ tick_getHeadNumber
    \/ tick_rpcError
    \/ tick_getBlockByNumber
    \/ tick_upsertBlocks
    \/ tick_upsertUnavailable

SpecTicks == Init /\ [][NextTicks]_vars

\* an RPC call of the work unit of chainId settles: the promise of
\* getHeadNumber or getBlockByNumber resolves or rejects
tick_rpcSettles(chainId) ==
    /\ head.pc \in {"getHeadNumber", "getBlockByNumber"}
    /\ Current(head) = chainId
    /\ (tick_getHeadNumber \/ tick_rpcError \/ tick_getBlockByNumber)

\* the promise of upsertBlocks settles
tick_storeSettles == tick_upsertBlocks \/ tick_upsertUnavailable

\* The head tick with the scheduling the program can count on: the cron
\* keeps firing, the store settles every call and the endpoint of the last
\* configured chain settles every call.  tick awaits rpc.getHeadNumber and
\* rpc.getBlockByNumber without a deadline and RpcService takes none, so
\* nothing in the program makes a call to the endpoint of the first chain
\* settle: no fairness is stated for it.
SpecTicksFair ==
    /\ Init
    /\ [][NextTicks]_vars
    /\ WF_vars(handleCronSeveral)
    /\ WF_vars(tick_storeSettles)
    /\ WF_vars(tick_rpcSettles(severalChainIds[2]))

(***************************************************************************)
(* Specification of two chains in one table: direct upsertBlocks calls     *)
(* with batches that mix the chains                                        *)
(***************************************************************************)
ChainRows ==
    {Row(c, n, h) : c \in StoreChains, n \in 0..ChainsMaxNumber,
                    h \in BatchHashes \cup {NULL}}

ChainBatches == SeqsUpTo(ChainRows, ChainsMaxBatchLen)

ChainsUpsert ==
    /\ \E input \in ChainBatches : Commit(input)
    /\ UNCHANGED <<outside, overlapping, lastCall, head, scan, gap>>

NextChains == ChainsUpsert

SpecChains == Init /\ [][NextChains]_vars

(***************************************************************************)
(* Specification of findMissingFullRange alone: direct calls on any table  *)
(* of one chain, with rows written by others between its reads             *)
(***************************************************************************)
\* a hash of its own for every height
HashOfNumber(n) == "0xh" \o ToString(n)

GapNumbers == 0..GapMaxNumber

GapRows(N) == {Row(1, n, HashOfNumber(n)) : n \in N}

InitGap ==
    /\ store \in {GapRows(N) : N \in SUBSET GapNumbers}
    /\ lastCall = NoCall
    /\ solo = [c \in StoreChains |-> {r \in store : r.chainId = c}]
    /\ head = Idle
    /\ scan = Idle
    /\ gap = NoGapCall
    /\ overlapping = NoOverlap
    /\ clients = constructor
    /\ rpcCall = NoRpcCall
    /\ app = Bootstrapped
    /\ reply = NoReply
    /\ metrics = NoObservation
    /\ second = NoSecond

\* findMissingFullRange(chainId) is called: the first findFirst is issued
gap_call ==
    /\ gap.pc = "idle"
    /\ \E c \in StoreChains :
          gap' = [NoGapCall EXCEPT !.pc = "findFirstAsc", !.chainId = c]
    /\ UNCHANGED <<outside, overlapping, store, lastCall, solo, head, scan>>

\* the lowest stored height is read
gap_findFirstAsc ==
    /\ gap.pc = "findFirstAsc"
    /\ gap' = [gap EXCEPT !.pc = "findFirstDesc",
                          !.first = firstNumber(store, gap.chainId)]
    /\ UNCHANGED <<outside, overlapping, store, lastCall, solo, head, scan>>

\* the highest stored height is read
gap_findFirstDesc ==
    /\ gap.pc = "findFirstDesc"
    /\ gap' = [gap EXCEPT !.pc = "queryRaw",
                          !.last = lastNumber(store, gap.chainId)]
    /\ UNCHANGED <<outside, overlapping, store, lastCall, solo, head, scan>>

\* the raw query runs, the loops collect the heights, the call returns
gap_queryRaw ==
    /\ gap.pc = "queryRaw"
    /\ gap' = [gap EXCEPT
                  !.pc = "idle",
                  !.missing = missingBetween(store, gap.chainId,
                                             gap.first, gap.last)]
    /\ UNCHANGED <<outside, overlapping, store, lastCall, solo, head, scan>>

\* while the call is running, a tick or a scan stores a new row of chain 1
gap_write ==
    /\ gap.pc # "idle"
    /\ gap.writes < GapMaxWrites
    /\ \E n \in GapNumbers \ numbers(store, 1) :
          Commit(<< Row(1, n, HashOfNumber(n)) >>)
    /\ gap' = [gap EXCEPT !.writes = gap.writes + 1]
    /\ UNCHANGED <<outside, overlapping, lastCall, head, scan>>

NextGap ==
    \/ gap_call
    \/ gap_findFirstAsc
    \/ gap_findFirstDesc
    \/ gap_queryRaw
    \/ gap_write

SpecGap == InitGap /\ [][NextGap]_vars

(***************************************************************************)
(* Specification of findMissingFullRange on longer chains, without writes  *)
(* between its reads                                                       *)
(***************************************************************************)
TruncNumbers == 0..TruncMaxNumber

InitTrunc ==
    /\ store \in {GapRows(N) : N \in SUBSET TruncNumbers}
    /\ lastCall = NoCall
    /\ solo = [c \in StoreChains |-> {r \in store : r.chainId = c}]
    /\ head = Idle
    /\ scan = Idle
    /\ gap = NoGapCall
    /\ overlapping = NoOverlap
    /\ clients = constructor
    /\ rpcCall = NoRpcCall
    /\ app = Bootstrapped
    /\ reply = NoReply
    /\ metrics = NoObservation
    /\ second = NoSecond

NextTrunc ==
    \/ gap_call
    \/ gap_findFirstAsc
    \/ gap_findFirstDesc
    \/ gap_queryRaw

SpecTrunc == InitTrunc /\ [][NextTrunc]_vars

(***************************************************************************)
(* Specification of the gap scan alone, on any table of one chain, with an *)
(* endpoint whose block hashes identify the block                          *)
(***************************************************************************)
FillNumbers == 0..FillMaxNumber

\* the hashes of the blocks of height n: one per branch of a fork, and none
\* for a block that is still pending
HashesOfNumber(n) == {HashOfNumber(n), "0xf" \o ToString(n), NULL}

InitFill ==
    /\ store \in {GapRows(N) : N \in SUBSET FillNumbers}
    /\ lastCall = NoCall
    /\ solo = [c \in StoreChains |-> {r \in store : r.chainId = c}]
    /\ head = Idle
    /\ scan = Idle
    /\ gap = NoGapCall
    /\ overlapping = NoOverlap
    /\ clients = constructor
    /\ rpcCall = NoRpcCall
    /\ app = Bootstrapped
    /\ reply = NoReply
    /\ metrics = NoObservation
    /\ second = NoSecond

scanClientTip_getBlocksOfNumber ==
    scanClientTip_getBlocksOf([n \in Nat |-> HashesOfNumber(n)])

NextFill ==
    \/ scanTipWindows
    \/ scanClientTip_getLatest
    \/ scanClientTip_findFirstAsc
    \/ scanClientTip_findFirstDesc
    \/ scanClientTip_findMissing
    \/ scanClientTip_getBlocksOfNumber
    \/ scanClientTip_rpcError
    \/ scanClientTip_upsertBlocks
    \/ scanClientTip_upsertUnavailable

SpecFill == InitFill /\ [][NextFill]_vars

(***************************************************************************)
(* Specification of the gap scan over several configured chains            *)
(***************************************************************************)
ScansNumbers == 0..ScansMaxNumber

\* the rows of heights N of a chain, each with a hash of its own
RowsOfChain(chainId, N) ==
    {Row(chainId, n, "0xc" \o ToString(chainId) \o HashOfNumber(n)) : n \in N}

InitScans ==
    /\ store \in {RowsOfChain(1, N1) \cup RowsOfChain(2, N2) :
                      N1 \in SUBSET ScansNumbers, N2 \in SUBSET ScansNumbers}
    /\ lastCall = NoCall
    /\ solo = [c \in StoreChains |-> {r \in store : r.chainId = c}]
    /\ head = Idle
    /\ scan = Idle
    /\ gap = NoGapCall
    /\ overlapping = NoOverlap
    /\ clients = constructor
    /\ rpcCall = NoRpcCall
    /\ app = Bootstrapped
    /\ reply = NoReply
    /\ metrics = NoObservation
    /\ second = NoSecond

scanTipWindowsSeveral == scanTipWindowsOf(severalChainIds)

NextScans ==
    \/ scanTipWindowsSeveral
    \/ scanClientTip_getLatest
    \/ scanClientTip_findFirstAsc
    \/ scanClientTip_findFirstDesc
    \/ scanClientTip_findMissing
    \/ scanClientTip_getBlocksOfNumber
    \/ scanClientTip_rpcError
    \/ scanClientTip_upsertBlocks
    \/ scanClientTip_upsertUnavailable

SpecScans == InitScans /\ [][NextScans]_vars

(***************************************************************************)
(* Specifications of repeated gap scans of one chain whose head does not   *)
(* advance: the rows of the lowest and of the highest height are stored    *)
(* and nothing but the scan writes                                         *)
(***************************************************************************)
InitRepair ==
    /\ store \in {GapRows({0, RepairMaxNumber} \cup N) :
                      N \in SUBSET (1..(RepairMaxNumber - 1))}
    /\ lastCall = NoCall
    /\ solo = [c \in StoreChains |-> {r \in store : r.chainId = c}]
    /\ head = Idle
    /\ scan = Idle
    /\ gap = NoGapCall
    /\ overlapping = NoOverlap
    /\ clients = constructor
    /\ rpcCall = NoRpcCall
    /\ app = Bootstrapped
    /\ reply = NoReply
    /\ metrics = NoObservation
    /\ second = NoSecond

\* scanClientTip_getBlocksFound keeping only the first block that came back
scanClientTip_getBlocksFoundFirstOnly(notFound) ==
    /\ scan.pc = "getBlocks"
    /\ \A i \in 1..Len(scan.missing) : scan.missing[i] \notin notFound
    /\ scan' = [scan EXCEPT
                   !.pc = "upsertBlocks",
                   !.data = << mapped(Current(scan),
                                      Block(scan.missing[1],
                                            HashOfNumber(scan.missing[1]))) >>]
    /\ UNCHANGED <<outside, overlapping, store, lastCall, solo, head, gap>>

\* Promise.all resolves: rpc.getBlockByNumber has answered every request of
\* the scan with the block of the chain, none of them for a height of
\* notFound; the blocks are mapped to insert records and upsertBlocks(data)
\* is issued
scanClientTip_getBlocksFound(notFound) ==
    /\ scan.pc = "getBlocks"
    /\ \A i \in 1..Len(scan.missing) : scan.missing[i] \notin notFound
    /\ scan' = [scan EXCEPT
                   !.pc = "upsertBlocks",
                   !.data = [i \in 1..Len(scan.missing) |->
                                mapped(Current(scan),
                                       Block(scan.missing[i],
                                             HashOfNumber(scan.missing[i])))]]
    /\ UNCHANGED <<outside, overlapping, store, lastCall, solo, head, gap>>

\* rpc.getBlockByNumber answers null (or rejects) for a height of notFound
\* among the requests of the scan: b.number throws in the map (or
\* Promise.all rejects), scanClientTip throws
scanClientTip_getBlocksNotFound(notFound) ==
    /\ scan.pc = "getBlocks"
    /\ \E i \in 1..Len(scan.missing) : scan.missing[i] \in notFound
    /\ scanClientTip_rpcError

\* the scan with an endpoint and a store of any behaviour
NextRepair ==
    \/ scanTipWindows
    \/ scanClientTip_getLatest
    \/ scanClientTip_findFirstAsc
    \/ scanClientTip_findFirstDesc
    \/ scanClientTip_findMissing
    \/ scanClientTip_getBlocksFound({})
    \/ scanClientTip_rpcError
    \/ scanClientTip_upsertBlocks
    \/ scanClientTip_upsertUnavailable

SpecRepair == InitRepair /\ [][NextRepair]_vars

\* where the scan is: its await position, the chains left and the work
\* units done; every step of the scan changes it
scanAt == <<scan.pc, scan.chains, scan.log>>

\* the first limit elements of a set of heights, lowest first
LowestMissing(M) ==
    [i \in 1..(IF Cardinality(M) < limit THEN Cardinality(M) ELSE limit) |->
        CHOOSE n \in M : Cardinality({m \in M : m < n}) = i - 1]

\* the promise of findMissingFullRange settles: the scan goes on with the
\* lowest missing heights, or to the next chain when none is missing
findMissingSettles ==
    /\ scan.pc = "queryRaw"
    /\ \E M \in {{n \in (scan.first + 1)..(scan.last - 1) :
                     n \notin numbers(store, Current(scan))}} :
          \E missing \in {LowestMissing(M)} :
             scan' = IF missing = << >>
                     THEN NextScan(scan, "complete")
                     ELSE [scan EXCEPT !.pc = "getBlocks",
                                       !.missing = missing]

\* the promise of upsertBlocks settles, resolved or rejected: the scan goes
\* to the next chain or returns
upsertBlocksSettles ==
    /\ scan.pc = "upsertBlocks"
    /\ scan' \in {NextScan(scan, "ok"), NextScan(scan, "error")}

\* The scheduling of the scan: the cron keeps firing (@Cron(EVERY_MINUTE))
\* and every promise the scan awaits settles, the block requests as the
\* endpoint answers them (no block for the heights of notFound).  Each
\* disjunct tells where the scan is after the await; what the step writes is
\* left to NextRepairFound and NextRepairNotFound, every step of which is a
\* step of Settles (SettlesFound, SettlesNotFound).
Settles(notFound) ==
    \/ scanTipWindows
    \/ scanClientTip_getLatest
    \/ scanClientTip_findFirstAsc
    \/ scanClientTip_findFirstDesc
    \/ findMissingSettles
    \/ scanClientTip_getBlocksFound(notFound)
    \/ scanClientTip_getBlocksNotFound(notFound)
    \/ upsertBlocksSettles

\* every block request succeeds
NextRepairFound ==
    \/ scanTipWindows
    \/ scanClientTip_getLatest
    \/ scanClientTip_findFirstAsc
    \/ scanClientTip_findFirstDesc
    \/ scanClientTip_findMissing
    \/ scanClientTip_getBlocksFound({})
    \/ scanClientTip_upsertBlocks

SpecRepairFair ==
    InitRepair /\ [][NextRepairFound]_vars /\ WF_scanAt(Settles({}))

SettlesFound == [][Settles({})]_vars

\* the height the endpoint never has a block for
NotFoundNumber == 1

\* the endpoint keeps answering null for one height and has every other
\* block
NextRepairNotFound ==
    \/ scanTipWindows
    \/ scanClientTip_getLatest
    \/ scanClientTip_findFirstAsc
    \/ scanClientTip_findFirstDesc
    \/ scanClientTip_findMissing
    \/ scanClientTip_getBlocksFound({NotFoundNumber})
    \/ scanClientTip_getBlocksNotFound({NotFoundNumber})
    \/ scanClientTip_upsertBlocks

SpecRepairNotFoundFair ==
    /\ InitRepair
    /\ [][NextRepairNotFound]_vars
    /\ WF_scanAt(Settles({NotFoundNumber}))

SettlesNotFound == [][Settles({NotFoundNumber})]_vars

(***************************************************************************)
(* Specification of two instances of one handler: the scheduler has called *)
(* scanTipWindows (or handleCron) a second time before the first call      *)
(* returned.  Node runs one continuation at a time: the instance whose     *)
(* continuation runs is in scan (head), the other one is suspended at its  *)
(* await in second.instance.  The endpoint has every block asked for.      *)
(***************************************************************************)
\* the tables the two instances are called on: rows at the lowest and the
\* highest height and at up to OverlapMaxStored of the first k heights between
OverlapStores(k) ==
    {GapRows({0, RepairMaxNumber} \cup N) :
        N \in {M \in SUBSET (1..k) : Cardinality(M) <= OverlapMaxStored}}

InitOverlap ==
    /\ \/ /\ store \in OverlapStores(RepairMaxNumber - 1)
          /\ head = Idle
          /\ scan = [Idle EXCEPT !.pc = "getLatest",
                                 !.chains = configuredChainIds]
          /\ second = [handler |-> "scanTipWindows", instance |-> scan,
                       store |-> store]
       \/ /\ store \in OverlapStores(MaxNumber)
          /\ scan = Idle
          /\ head = [Idle EXCEPT !.pc = "getHeadNumber",
                                 !.chains = configuredChainIds]
          /\ second = [handler |-> "handleCron", instance |-> head,
                       store |-> store]
    /\ lastCall = NoCall
    /\ solo = [c \in StoreChains |-> {r \in store : r.chainId = c}]
    /\ gap = NoGapCall
    /\ overlapping = NoOverlap
    /\ clients = constructor
    /\ rpcCall = NoRpcCall
    /\ app = Bootstrapped
    /\ reply = NoReply
    /\ metrics = NoObservation

\* the promise the suspended instance of scanTipWindows awaits has settled
\* and the event loop runs its continuation next; the instance that ran
\* last is suspended at its own await
scanTipWindows_resumes ==
    /\ second.handler = "scanTipWindows"
    /\ second.instance.pc # "idle"
    /\ scan' = second.instance
    /\ second' = [second EXCEPT !.instance = scan]
    /\ UNCHANGED <<store, lastCall, solo, head, gap, overlapping, clients,
                   rpcCall, app, reply, metrics>>

\* the same for the two instances of handleCron
handleCron_resumes ==
    /\ second.handler = "handleCron"
    /\ second.instance.pc # "idle"
    /\ head' = second.instance
    /\ second' = [second EXCEPT !.instance = head]
    /\ UNCHANGED <<store, lastCall, solo, scan, gap, overlapping, clients,
                   rpcCall, app, reply, metrics>>

NextOverlap ==
    \/ scanClientTip_getLatest
    \/ scanClientTip_findFirstAsc
    \/ scanClientTip_findFirstDesc
    \/ scanClientTip_findMissing
    \/ scanClientTip_getBlocksFound({})
    \/ scanClientTip_upsertBlocks
    \/ scanTipWindows_resumes
    \/ tick_getHeadNumber
    \/ tick_getBlockByNumber
    \/ tick_upsertBlocks
    \/ handleCron_resumes

SpecOverlap == InitOverlap /\ [][NextOverlap]_vars

(***************************************************************************)
(* Specification of the application life cycle: bootstrap, the cron jobs   *)
(* and the shutdown hooks                                                  *)
(***************************************************************************)
\* NestFactory.create has built the providers; no onModuleInit has run
Created == [phase |-> "created", connected |-> FALSE, signalled |-> FALSE]

InitApp ==
    /\ store = {}
    /\ lastCall = NoCall
    /\ solo = [c \in StoreChains |-> {}]
    /\ head = Idle
    /\ scan = Idle
    /\ gap = NoGapCall
    /\ overlapping = NoOverlap
    /\ clients = constructor
    /\ rpcCall = NoRpcCall
    /\ app = Created
    /\ reply = NoReply
    /\ metrics = NoObservation
    /\ second = NoSecond

\* onModuleInit calling handleCron as well as scanTipWindows
onModuleInitWithHeadTick ==
    /\ app.phase = "created"
    /\ app' = [app EXCEPT !.phase = "running", !.connected = TRUE]
    /\ scan' = IF configuredChainIds = << >> THEN scan
               ELSE [Idle EXCEPT !.pc = "getLatest",
                                 !.chains = configuredChainIds]
    /\ head' = IF configuredChainIds = << >> THEN head
               ELSE [Idle EXCEPT !.pc = "getHeadNumber",
                                 !.chains = configuredChainIds]
    /\ UNCHANGED <<store, lastCall, solo, gap, overlapping, metrics, second, clients,
                   rpcCall, reply>>

\* bootstrap: PrismaService.onModuleInit connects, EvmWatcherProvider's
\* onModuleInit calls this.scanTipWindows() without awaiting it (the call
\* runs to its first await: getLatest of the first chain is issued), and
\* the application starts its cron jobs and listens
onModuleInit ==
    /\ app.phase = "created"
    /\ app' = [app EXCEPT !.phase = "running", !.connected = TRUE]
    /\ scan' = IF configuredChainIds = << >> THEN scan
               ELSE [Idle EXCEPT !.pc = "getLatest",
                                 !.chains = configuredChainIds]
    /\ UNCHANGED <<store, lastCall, solo, head, gap, overlapping, metrics, second, clients,
                   rpcCall, reply>>

\* the cron jobs fire while the application runs
cron_handleCron == app.phase = "running" /\ handleCron
cron_scanTipWindows == app.phase = "running" /\ scanTipWindows

\* enableShutdownHooks: a termination signal makes Nest close the
\* application; the cron jobs stop and the onModuleDestroy hooks run, of
\* which PrismaService's disconnects.  EvmWatcherProvider has no shutdown
\* hook and keeps no handle on the promises of its handlers.
onModuleDestroy ==
    /\ app.phase = "running"
    /\ app' = [app EXCEPT !.phase = "closing", !.connected = FALSE,
                          !.signalled = TRUE]
    /\ UNCHANGED <<store, lastCall, solo, head, scan, gap, overlapping, metrics, second,
                   clients, rpcCall, reply>>

\* the hooks have returned and the process ends: handlers still awaiting
\* are dropped where they are
exit ==
    /\ app.phase = "closing"
    /\ app' = [app EXCEPT !.phase = "exited"]
    /\ UNCHANGED <<store, lastCall, solo, head, scan, gap, overlapping, metrics, second,
                   clients, rpcCall, reply>>

\* the process is alive: pending promises can settle and handlers go on
Alive == app.phase \in {"running", "closing"}

NextApp ==
    \/ onModuleInit
    \/ cron_handleCron
    \/ cron_scanTipWindows
    \/ Alive /\ tick_getHeadNumber
    \/ Alive /\ tick_rpcError
    \/ Alive /\ tick_getBlockByNumber
    \/ Alive /\ tick_upsertBlocks
    \/ Alive /\ tick_upsertUnavailable
    \/ Alive /\ scanClientTip_getLatest
    \/ Alive /\ scanClientTip_findFirstAsc
    \/ Alive /\ scanClientTip_findFirstDesc
    \/ Alive /\ scanClientTip_findMissing
    \/ Alive /\ scanClientTip_getBlocks
    \/ Alive /\ scanClientTip_rpcError
    \/ Alive /\ scanClientTip_upsertBlocks
    \/ Alive /\ scanClientTip_upsertUnavailable
    \/ onModuleDestroy
    \/ exit

SpecApp == InitApp /\ [][NextApp]_vars

(***************************************************************************)
(* Read API: 64-bit integers, JavaScript numbers and decimal text          *)
(***************************************************************************)
\* A bigint (column BIGINT, 64 bits) is held as two limbs << hi, lo >> in
\* base 10^8, its value being hi * 10^8 + lo; a negative one has both limbs
\* negated.  Text is a sequence of characters.
Limb == 100000000
Big(hi, lo) == << hi, lo >>
BigLeq(a, b) == a[1] < b[1] \/ (a[1] = b[1] /\ a[2] <= b[2])
Negate(v) == << 0 - v[1], 0 - v[2] >>
IsNegative(v) == v[1] < 0 \/ v[2] < 0

DigitChars == << "0", "1", "2", "3", "4", "5", "6", "7", "8", "9" >>
IsDigit(c) == \E i \in 1..10 : DigitChars[i] = c
DigitValue(c) == (CHOOSE i \in 1..10 : DigitChars[i] = c) - 1

\* the decimal digits of a natural number below 10^9
RECURSIVE Digits(_)
Digits(n) ==
    IF n < 10 THEN << DigitChars[n + 1] >>
    ELSE Append(Digits(n \div 10), DigitChars[(n % 10) + 1])

\* the natural number written by at most nine digits
RECURSIVE DigitsValue(_)
DigitsValue(q) ==
    IF q = << >> THEN 0
    ELSE 10 * DigitsValue(SubSeq(q, 1, Len(q) - 1)) + DigitValue(q[Len(q)])

\* q padded with zeros on the left to the width of a limb
PadLimb(q) == [i \in 1..(8 - Len(q)) |-> "0"] \o q

\* BigInt.prototype.toString(): the decimal numeral, no leading zeros
RECURSIVE BigToString(_)
BigToString(v) ==
    IF IsNegative(v) THEN << "-" >> \o BigToString(Negate(v))
    ELSE IF v[1] = 0 THEN Digits(v[2])
    ELSE Digits(v[1]) \o PadLimb(Digits(v[2]))

\* /^-?\d+$/
IsDecimal(q) ==
    LET d == IF q # << >> /\ q[1] = "-" THEN Tail(q) ELSE q
    IN  d # << >> /\ \A i \in 1..Len(d) : IsDigit(d[i])

\* the integer a decimal numeral of at most sixteen digits writes
RECURSIVE DecimalValue(_)
DecimalValue(q) ==
    IF q[1] = "-" THEN Negate(DecimalValue(Tail(q)))
    ELSE IF Len(q) <= 8 THEN Big(0, DigitsValue(q))
    ELSE Big(DigitsValue(SubSeq(q, 1, Len(q) - 8)),
             DigitsValue(SubSeq(q, Len(q) - 7, Len(q))))

\* 2^53: up to it every integer is a JavaScript number
TwoTo53 == Big(90071992, 54740992)

\* the JavaScript number nearest to an integer below 2^54: from 2^53 on only
\* the even integers are numbers, and an odd one is halfway between two of
\* them and goes to the one whose 53-bit significand is even, the multiple
\* of 4 (10^8 is one, so v mod 4 = lo mod 4)
RECURSIVE ToNumber(_)
ToNumber(v) ==
    IF IsNegative(v) THEN Negate(ToNumber(Negate(v)))
    ELSE IF BigLeq(v, TwoTo53) \/ v[2] % 2 = 0 THEN v
    ELSE IF v[2] % 4 = 1 THEN Big(v[1], v[2] - 1)
    ELSE IF v[2] + 1 = Limb THEN Big(v[1] + 1, 0)
    ELSE Big(v[1], v[2] + 1)

\* ParseIntPipe.transform: a value that is not a decimal numeral is refused
\* (BadRequestException), otherwise parseInt(value, 10), a JavaScript number.
\* The global ValidationPipe({ transform: true }) of main.ts runs before it;
\* for the parameters drawn below (decimal numerals of at most sixteen
\* digits, a fraction with a non-zero decimal, a word) the result is the
\* same whether the pipe gets the text or the number it writes.
ParseIntPipe(value) ==
    IF IsDecimal(value) THEN [ok |-> TRUE, value |-> ToNumber(DecimalValue(value))]
    ELSE [ok |-> FALSE, value |-> Big(0, 0)]

\* toEvmBlockDto going through Number(block.number)
toEvmBlockDtoViaNumber(block) ==
    [number |-> BigToString(ToNumber(block.number)),
     hash |-> block.hash,
     parentHash |-> block.parentHash,
     timestamp |-> BigToString(ToNumber(block.timestamp))]

\* toEvmBlockDto
toEvmBlockDto(block) ==
    [number |-> BigToString(block.number),
     hash |-> block.hash,
     parentHash |-> block.parentHash,
     timestamp |-> BigToString(block.timestamp)]

(***************************************************************************)
(* Read API: EvmBlocksService reads and EvmBlocksController                *)
(***************************************************************************)
\* EvmBlocksService.getLatest over 64-bit heights:
\* findFirst({ where: { chainId }, orderBy: { number: "desc" } })
getLatest64(s, chainId) ==
    LET rows == {r \in s : r.chainId = chainId}
    IN  IF rows = {} THEN NoBlock
        ELSE CHOOSE r \in rows : \A x \in rows : BigLeq(x.number, r.number)

\* EvmBlocksService.byNumber over 64-bit heights:
\* findFirst({ where: { chainId, number: num }, orderBy: { number: "desc" } })
byNumber64(s, chainId, num) ==
    LET rows == {r \in s : r.chainId = chainId /\ r.number = num}
    IN  IF rows = {} THEN NoBlock ELSE CHOOSE r \in rows : TRUE

\* the body { error: "Not found" }
NotFound == [error |-> "Not found"]

\* the reply to a request a pipe has refused: BadRequestException, the
\* handler is not called
BadRequest(route, chainId, number) ==
    [route |-> route, chainId |-> chainId, number |-> number,
     status |-> 400, store |-> "none", row |-> NoBlock,
     body |-> [statusCode |-> 400, error |-> "Bad Request"]]

\* the reply when the promise of the store call rejects: the handler does
\* not catch, the exception leaves it and is answered as an internal error
InternalServerError(route, chainId, number) ==
    [route |-> route, chainId |-> chainId, number |-> number,
     status |-> 500, store |-> "failed", row |-> NoBlock,
     body |-> [statusCode |-> 500, message |-> "Internal server error"]]

\* if (!res) return { error: "Not found" }; return toEvmBlockDto(res);
Found(route, chainId, number, res) ==
    [route |-> route, chainId |-> chainId, number |-> number,
     status |-> 200, store |-> "answered", row |-> res,
     body |-> IF res = NoBlock THEN NotFound ELSE toEvmBlockDto(res)]

\* path parameters of the requests: decimal numerals (0, -1, 2^32, 2^53,
\* 2^53 + 1 among the heights), a fraction and a word
ReadChainTexts ==
    { << "1" >>, << "2" >>, << "7" >>, << "1", ".", "5" >>,
      << "i", "n", "v", "a", "l", "i", "d" >> }
ReadNumberTexts ==
    { << "0" >>, << "-", "1" >>,
      << "4", "2", "9", "4", "9", "6", "7", "2", "9", "6" >>,
      << "9", "0", "0", "7", "1", "9", "9", "2", "5", "4", "7", "4", "0",
         "9", "9", "2" >>,
      << "9", "0", "0", "7", "1", "9", "9", "2", "5", "4", "7", "4", "0",
         "9", "9", "3" >>,
      << "1", ".", "5" >>,
      << "i", "n", "v", "a", "l", "i", "d" >> }

\* the chain id a request names: the chain ids of the requests fit one limb
ChainIdOf(v) == v[2]

\* @Get(":chainId/latest") latest(@Param("chainId", ParseIntPipe) chainId);
\* answers tells whether the store call resolves
EvmBlocksController_latest ==
    /\ \E chainId \in ReadChainTexts, answers \in BOOLEAN :
          LET c == ParseIntPipe(chainId)
          IN  reply' =
                 IF ~c.ok THEN BadRequest("latest", chainId, << >>)
                 ELSE IF ~answers
                 THEN InternalServerError("latest", chainId, << >>)
                 ELSE Found("latest", chainId, << >>,
                            getLatest64(store, ChainIdOf(c.value)))
    /\ UNCHANGED <<store, lastCall, solo, head, scan, gap, overlapping, metrics, second,
                   clients, rpcCall, app>>

\* byNumber answering a rejected store call like an empty result
EvmBlocksController_byNumberCatches ==
    /\ \E chainId \in ReadChainTexts, number \in ReadNumberTexts,
          answers \in BOOLEAN :
          LET c == ParseIntPipe(chainId)
              n == ParseIntPipe(number)
          IN  reply' =
                 IF ~c.ok \/ ~n.ok THEN BadRequest("byNumber", chainId, number)
                 ELSE IF ~answers
                 THEN [InternalServerError("byNumber", chainId, number)
                          EXCEPT !.status = 200, !.body = NotFound]
                 ELSE Found("byNumber", chainId, number,
                            byNumber64(store, ChainIdOf(c.value), n.value))
    /\ UNCHANGED <<store, lastCall, solo, head, scan, gap, overlapping, metrics, second,
                   clients, rpcCall, app>>

\* @Get(":chainId/:number") byNumber(@Param("chainId", ParseIntPipe) chainId,
\* @Param("number", ParseIntPipe) number)
EvmBlocksController_byNumber ==
    /\ \E chainId \in ReadChainTexts, number \in ReadNumberTexts,
          answers \in BOOLEAN :
          LET c == ParseIntPipe(chainId)
              n == ParseIntPipe(number)
          IN  reply' =
                 IF ~c.ok \/ ~n.ok THEN BadRequest("byNumber", chainId, number)
                 ELSE IF ~answers
                 THEN InternalServerError("byNumber", chainId, number)
                 ELSE Found("byNumber", chainId, number,
                            byNumber64(store, ChainIdOf(c.value), n.value))
    /\ UNCHANGED <<store, lastCall, solo, head, scan, gap, overlapping, metrics, second,
                   clients, rpcCall, app>>

\* heights of the stored rows: 0, 2^32, 2^53 and 2^53 + 1
ReadNumbers ==
    { Big(0, 0), Big(42, 94967296), TwoTo53, Big(90071992, 54740993) }

\* the row of a chain at a height: the id is a serial number of its own,
\* the hash identifies the block
ReadRow(chainId, v) ==
    [id |-> Big(chainId, v[2] % 1000),
     chainId |-> chainId,
     number |-> v,
     hash |-> "0xc" \o ToString(chainId) \o "n" \o ToString(v[1])
                 \o ToString(v[2]),
     parentHash |-> "0xp" \o ToString(chainId) \o "n" \o ToString(v[1])
                       \o ToString(v[2]),
     timestamp |-> Big(17, v[2] % 1000)]

\* any table the upserts can have built for two chains
InitRead ==
    /\ store \in SUBSET {ReadRow(c, v) : c \in StoreChains, v \in ReadNumbers}
    /\ lastCall = NoCall
    /\ solo = [c \in StoreChains |-> {}]
    /\ head = Idle
    /\ scan = Idle
    /\ gap = NoGapCall
    /\ overlapping = NoOverlap
    /\ clients = constructor
    /\ rpcCall = NoRpcCall
    /\ app = Bootstrapped
    /\ reply = NoReply
    /\ metrics = NoObservation
    /\ second = NoSecond

NextRead == EvmBlocksController_latest \/ EvmBlocksController_byNumber

SpecRead == InitRead /\ [][NextRead]_vars

(***************************************************************************)
(* Specification of the RPC gateway (ViemRpcService)                       *)
(***************************************************************************)
\* chain ids the operations are called with: mainnet, a chain with a
\* definition and a URL, one with a URL and no definition, one with a
\* definition and no URL, one with neither
GatewayChainIds == {1, 10, 56, 137, 99999}

\* getConfiguredChainIds(): Array.from(this.clients.keys())
getConfiguredChainIds(m) == [i \in 1..Len(m) |-> m[i].key]

\* getClient that builds a client at every call
getClientNoCache(m, chainId) ==
    LET url == configGet(RPC_CHAIN_URL(chainId), "")
        client == createPublicClient(viemChainById(chainId), url, Len(m) + 1)
    IN  [clients |-> MapSet(m, chainId, client), client |-> client,
         existing |-> FALSE]

\* getClient(chainId): the client of the map or, when there is none, a new
\* one built from viemChainById(chainId) and RPC_CHAIN_<chainId>_URL
\* (default '') and put in the map; gives the map after the call, the
\* client returned and whether it was there before
getClient(m, chainId) ==
    IF MapHas(m, chainId)
    THEN [clients |-> m, client |-> MapGet(m, chainId), existing |-> TRUE]
    ELSE LET url == configGet(RPC_CHAIN_URL(chainId), "")
             client == createPublicClient(viemChainById(chainId), url,
                                          Len(m) + 1)
         IN  [clients |-> MapSet(m, chainId, client), client |-> client,
              existing |-> FALSE]

\* the record of a call that went through getClient
RpcCalled(op, chainId, g) ==
    [NoRpcCall EXCEPT !.op = op, !.chainId = chainId,
                      !.existing = g.existing, !.client = g.client]

\* getChainName(chainId): client.chain?.name ?? `chainId=${chainId}`
getChainName ==
    /\ \E chainId \in GatewayChainIds :
          LET g == getClient(clients, chainId)
          IN  /\ clients' = g.clients
              /\ rpcCall' =
                    [RpcCalled("getChainName", chainId, g) EXCEPT
                        !.status = "returned",
                        !.name = IF g.client.chain.name # NULL
                                 THEN g.client.chain.name
                                 ELSE "chainId=" \o ToString(chainId)]
    /\ UNCHANGED <<store, lastCall, solo, head, scan, gap, overlapping, metrics, second,
                   app, reply>>

\* getHeadNumber(chainId): client.getBlock({ blockTag: 'latest' }) on the
\* client getClient returns; the endpoint of that client answers with a
\* block or the call rejects with the transport's error
getHeadNumber ==
    /\ \E chainId \in GatewayChainIds, n \in Numbers \cup {NoNumber} :
          LET g == getClient(clients, chainId)
          IN  /\ clients' = g.clients
              /\ rpcCall' =
                    [RpcCalled("getHeadNumber", chainId, g) EXCEPT
                        !.status = IF n = NoNumber THEN "rejected"
                                   ELSE "resolved",
                        !.number = n]
    /\ UNCHANGED <<store, lastCall, solo, head, scan, gap, overlapping, metrics, second,
                   app, reply>>

\* getBlockByNumber(chainId, number): client.getBlock({ blockNumber })
getBlockByNumber ==
    /\ \E chainId \in GatewayChainIds, number \in Numbers,
          answers \in BOOLEAN :
          LET g == getClient(clients, chainId)
          IN  /\ clients' = g.clients
              /\ rpcCall' =
                    [RpcCalled("getBlockByNumber", chainId, g) EXCEPT
                        !.status = IF answers THEN "resolved"
                                   ELSE "rejected",
                        !.number = number]
    /\ UNCHANGED <<store, lastCall, solo, head, scan, gap, overlapping, metrics, second,
                   app, reply>>

\* getConfiguredChainIds()
gateway_getConfiguredChainIds ==
    /\ rpcCall' = [NoRpcCall EXCEPT !.op = "getConfiguredChainIds",
                                    !.status = "returned",
                                    !.ids = getConfiguredChainIds(clients)]
    /\ UNCHANGED <<store, lastCall, solo, head, scan, gap, overlapping, metrics, second,
                   clients, app, reply>>

NextGateway ==
    \/ getChainName
    \/ getHeadNumber
    \/ getBlockByNumber
    \/ gateway_getConfiguredChainIds

SpecGateway == Init /\ [][NextGateway]_vars

(***************************************************************************)
(* MetricsService and MetricsMiddleware.  Text is a sequence of            *)
(* one-character strings; a regular expression is the sequence of          *)
(* character classes it starts with and the class it greedily repeats      *)
(* after them (empty when it repeats none)                                 *)
(***************************************************************************)
\* the requests drawn have paths of at most this many segments
MaxSegments == 2

Rep(x, n) == [i \in 1..n |-> x]

\* \d, and [a-f0-9] under the i flag
Digit == {DigitChars[i] : i \in 1..10}
Hex == Digit \cup {"a", "b", "c", "d", "e", "f", "A", "B", "C", "D", "E", "F"}

LowerCase == << "a", "b", "c", "d", "e", "f", "g", "h", "i", "j", "k", "l", "m", "n", "o", "p", "q", "r", "s", "t", "u", "v", "w", "x", "y", "z" >>
UpperCase == << "A", "B", "C", "D", "E", "F", "G", "H", "I", "J", "K", "L", "M", "N", "O", "P", "Q", "R", "S", "T", "U", "V", "W", "X", "Y", "Z" >>

\* String.prototype.toUpperCase on the letters a to z
toUpperCase(s) ==
    [i \in 1..Len(s) |->
        IF \E k \in 1..26 : LowerCase[k] = s[i]
        THEN UpperCase[CHOOSE k \in 1..26 : LowerCase[k] = s[i]]
        ELSE s[i]]

\* the number of characters the expression matches at position i of s,
\* 0 when it does not match there
MatchLen(s, i, re) ==
    LET n == Len(re.fixed)
        fits == /\ i + n - 1 <= Len(s)
                /\ \A k \in 1..n : s[i + k - 1] \in re.fixed[k]
        last == CHOOSE j \in (i + n - 1)..Len(s) :
                    /\ \A k \in (i + n)..j : s[k] \in re.more
                    /\ (j = Len(s) \/ s[j + 1] \notin re.more)
    IN  IF fits THEN last - i + 1 ELSE 0

\* RegExp.prototype.test of an expression written between ^ and $
test(re, s) == Len(s) > 0 /\ MatchLen(s, 1, re) = Len(s)

\* String.prototype.replace with a g expression: every match, left to
\* right, is replaced, and the search goes on after the match
RECURSIVE replaceFrom(_, _, _, _)
replaceFrom(s, i, re, by) ==
    LET hits == {j \in i..Len(s) : MatchLen(s, j, re) > 0}
        j == CHOOSE j \in hits : \A k \in hits : j <= k
    IN  IF hits = {} THEN SubSeq(s, i, Len(s))
        ELSE SubSeq(s, i, j - 1) \o by
             \o replaceFrom(s, j + MatchLen(s, j, re), re, by)

replace(s, re, by) == replaceFrom(s, 1, re, by)

\* [0-9a-f]{8}-[0-9a-f]{4}-[0-9a-f]{4}-[0-9a-f]{4}-[0-9a-f]{12}
uuid ==
    Rep(Hex, 8) \o << {"-"} >> \o Rep(Hex, 4) \o << {"-"} >> \o Rep(Hex, 4)
    \o << {"-"} >> \o Rep(Hex, 4) \o << {"-"} >> \o Rep(Hex, 12)

\* the five expressions of normalizeRoute, in the order they are applied
routeUuid == [fixed |-> << {"/"} >> \o uuid, more |-> {}]
routeHexPrefixed == [fixed |-> << {"/"}, {"0"}, {"x", "X"}, Hex >>, more |-> Hex]
routeHash == [fixed |-> << {"/"} >> \o Rep(Hex, 64), more |-> {}]
routeAddress == [fixed |-> << {"/"} >> \o Rep(Hex, 40), more |-> {}]
routeNumber == [fixed |-> << {"/"}, Digit >>, more |-> Digit]

\* MetricsService.normalizeRoute: the replacements, and '/unknown' for
\* an empty result
normalizeRoute(path) ==
    LET r == replace(replace(replace(replace(replace(path,
                 routeUuid, << "/", ":", "i", "d" >>),
                 routeHexPrefixed, << "/", ":", "h", "a", "s", "h" >>),
                 routeHash, << "/", ":", "h", "a", "s", "h" >>),
                 routeAddress, << "/", ":", "a", "d", "d", "r", "e", "s", "s" >>),
                 routeNumber, << "/", ":", "i", "d" >>)
    IN  IF r = << >> THEN << "/", "u", "n", "k", "n", "o", "w", "n" >> ELSE r

\* MetricsService.SAFE_LABEL_VALUES
SAFE_LABEL_VALUES ==
    [chainId |-> { << "1" >>,
                  << "5" >>,
                  << "1", "3", "7" >>,
                  << "8", "4", "5", "3" >>,
                  << "4", "2", "1", "6", "1" >>,
                  << "u", "n", "k", "n", "o", "w", "n" >> },
     status |-> { << "s", "u", "c", "c", "e", "s", "s" >>,
                 << "e", "r", "r", "o", "r" >>,
                 << "t", "i", "m", "e", "o", "u", "t" >>,
                 << "r", "a", "t", "e", "_", "l", "i", "m", "i", "t", "e", "d" >> },
     operation |-> { << "s", "y", "n", "c" >>,
                    << "r", "e", "o", "r", "g" >>,
                    << "f", "e", "t", "c", "h" >>,
                    << "v", "a", "l", "i", "d", "a", "t", "e" >>,
                    << "p", "r", "o", "c", "e", "s", "s" >> },
     pool |-> { << "p", "r", "i", "m", "a", "r", "y" >>,
               << "r", "e", "a", "d", "o", "n", "l", "y" >>,
               << "a", "r", "c", "h", "i", "v", "e" >> },
     source |-> { << "r", "p", "c" >>,
                 << "c", "a", "c", "h", "e" >>,
                 << "d", "b" >>,
                 << "m", "e", "m", "o", "r", "y" >> },
     method |-> { << "G", "E", "T" >>,
                 << "P", "O", "S", "T" >>,
                 << "P", "U", "T" >>,
                 << "D", "E", "L", "E", "T", "E" >>,
                 << "P", "A", "T", "C", "H" >>,
                 << "H", "E", "A", "D" >>,
                 << "O", "P", "T", "I", "O", "N", "S" >> }]

unknown == << "u", "n", "k", "n", "o", "w", "n" >>

\* the expressions of isHighCardinalityValue and
\* normalizeHighCardinalityValue, written between ^ and $
longHex == [fixed |-> << {"0"}, {"x", "X"} >> \o Rep(Hex, 40), more |-> Hex]
wholeUuid == [fixed |-> uuid, more |-> {}]
longNumber == [fixed |-> Rep(Digit, 10), more |-> Digit]
wholeAddress == [fixed |-> << {"0"}, {"x", "X"} >> \o Rep(Hex, 40), more |-> {}]
wholeHash == [fixed |-> << {"0"}, {"x", "X"} >> \o Rep(Hex, 64), more |-> {}]

\* MetricsService.isHighCardinalityValue
isHighCardinalityValue(value) ==
    \/ test(longHex, value)
    \/ test(wholeUuid, value)
    \/ test(longNumber, value)
    \/ Len(value) > 20

\* MetricsService.normalizeHighCardinalityValue
normalizeHighCardinalityValue(key, value) ==
    IF test(wholeAddress, value) THEN << "a", "d", "d", "r", "e", "s", "s" >>
    ELSE IF test(wholeHash, value) THEN << "h", "a", "s", "h" >>
    ELSE IF test(wholeUuid, value) THEN << "u", "u", "i", "d" >>
    ELSE IF test(longNumber, value) THEN << "l", "a", "r", "g", "e", "_", "n", "u", "m", "b", "e", "r" >>
    ELSE << "n", "o", "r", "m", "a", "l", "i", "z", "e", "d" >>

\* validateLabels without the allow-list
validateLabelsNoAllowList(labels) ==
    [key \in DOMAIN labels |->
        IF isHighCardinalityValue(labels[key])
        THEN normalizeHighCardinalityValue(key, labels[key])
        ELSE labels[key]]

\* MetricsService.validateLabels: each entry is rewritten to 'unknown'
\* when its key has an allow-list that lacks the value, and then, when
\* the value it had on entry looks of high cardinality, to the name of
\* its kind
validateLabels(labels) ==
    [key \in DOMAIN labels |->
        LET value == labels[key]
            listed == IF key \in DOMAIN SAFE_LABEL_VALUES
                         /\ value \notin SAFE_LABEL_VALUES[key]
                      THEN unknown ELSE value
        IN  IF isHighCardinalityValue(value)
            THEN normalizeHighCardinalityValue(key, value)
            ELSE listed]

\* MetricsService.recordHttpRequest: the labels observed
recordHttpRequest(method, route, statusCode) ==
    validateLabels([method |-> toUpperCase(method), route |-> route,
                    status_code |-> Digits(statusCode)])

\* the methods Node's parser lets through, of which the first three are
\* in the allow-list
Methods == { << "G", "E", "T" >>,
             << "P", "O", "S", "T" >>,
             << "D", "E", "L", "E", "T", "E" >>,
             << "P", "R", "O", "P", "F", "I", "N", "D" >>,
             << "M", "-", "S", "E", "A", "R", "C", "H" >> }

\* the routes the controllers declare under the global prefix 'api', each
\* with the path of a request it matches
Routes ==
    { [route |-> << "/", "a", "p", "i", "/", "h", "e", "a", "l", "t", "h" >>,
       path |-> << "/", "a", "p", "i", "/", "h", "e", "a", "l", "t", "h" >>],
      [route |-> << "/", "a", "p", "i", "/", "h", "e", "a", "l", "t", "h", "/", "d", "a", "t", "a", "b", "a", "s", "e" >>,
       path |-> << "/", "a", "p", "i", "/", "h", "e", "a", "l", "t", "h", "/", "d", "a", "t", "a", "b", "a", "s", "e" >>],
      [route |-> << "/", "a", "p", "i", "/", "e", "v", "m", "/", "b", "l", "o", "c", "k", "s", "/", "h", "e", "a", "l", "t", "h" >>,
       path |-> << "/", "a", "p", "i", "/", "e", "v", "m", "/", "b", "l", "o", "c", "k", "s", "/", "h", "e", "a", "l", "t", "h" >>],
      [route |-> << "/", "a", "p", "i", "/", "e", "v", "m", "/", "b", "l", "o", "c", "k", "s", "/", ":", "c", "h", "a", "i", "n", "I", "d", "/", "l", "a", "t", "e", "s", "t" >>,
       path |-> << "/", "a", "p", "i", "/", "e", "v", "m", "/", "b", "l", "o", "c", "k", "s", "/", "1", "/", "l", "a", "t", "e", "s", "t" >>],
      [route |-> << "/", "a", "p", "i", "/", "e", "v", "m", "/", "b", "l", "o", "c", "k", "s", "/", ":", "c", "h", "a", "i", "n", "I", "d", "/", ":", "n", "u", "m", "b", "e", "r" >>,
       path |-> << "/", "a", "p", "i", "/", "e", "v", "m", "/", "b", "l", "o", "c", "k", "s", "/", "1", "/", "1", "2", "3" >>] }

\* path segments: words, a number, prefixed hex, a UUID, 64 and 40 hex
\* characters, a prefixed address, and a word that starts with digits
PathSegments ==
    { << "a", "p", "i" >>,
      << "b", "l", "o", "c", "k", "s" >>,
      << "t", "r", "a", "n", "s", "a", "c", "t", "i", "o", "n", "s" >>,
      << "1", "2", "3" >>,
      << "0", "x", "1", "a", "2", "b" >>,
      << "5", "5", "0", "e", "8", "4", "0", "0", "-", "e", "2", "9", "b", "-", "4", "1", "d", "4", "-", "a", "7", "1", "6", "-", "4", "4", "6", "6", "5", "5", "4", "4", "0", "0", "0", "0" >>,
      Rep("a", 64),
      Rep("b", 40),
      << "0", "x" >> \o Rep("c", 40),
      << "1", "2", "3", "a", "b", "c" >> }

\* the path made of the segments
RECURSIVE PathOf(_)
PathOf(segments) ==
    IF segments = << >> THEN << >>
    ELSE << "/" >> \o Head(segments) \o PathOf(Tail(segments))

Paths ==
    {PathOf(segments) :
        segments \in UNION {[1..n -> PathSegments] : n \in 1..MaxSegments}}

\* the requests answered: by a handler of a declared route, or by none
Requests ==
    {[method |-> m, route |-> r.route, path |-> r.path, statusCode |-> c] :
        m \in Methods, r \in Routes, c \in {200, 500}}
    \cup [method : Methods, route : {<< >>}, path : Paths,
          statusCode : {404}]

\* the route MetricsMiddleware records: req.route?.path || req.path ||
\* '/unknown'
routeOf(req) ==
    IF req.route # << >> THEN req.route
    ELSE IF req.path # << >> THEN req.path
    ELSE << "/", "u", "n", "k", "n", "o", "w", "n" >>

\* a request has arrived and MetricsMiddleware.use has wrapped res.end
InitMetrics ==
    /\ store = {}
    /\ lastCall = NoCall
    /\ solo = [c \in StoreChains |-> {}]
    /\ head = Idle
    /\ scan = Idle
    /\ gap = NoGapCall
    /\ overlapping = NoOverlap
    /\ clients = constructor
    /\ rpcCall = NoRpcCall
    /\ app = Bootstrapped
    /\ reply = NoReply
    /\ \E req \in Requests : metrics = [NoObservation EXCEPT !.req = req]
    /\ second = NoSecond

\* MetricsMiddleware.use, the res.end it installs: when the response
\* ends, the route's path (the request's path when no route matched) is
\* normalized and the request is recorded
MetricsMiddleware_use ==
    /\ ~metrics.ended
    /\ metrics' = [metrics EXCEPT
                      !.ended = TRUE,
                      !.labels = recordHttpRequest(metrics.req.method,
                                     normalizeRoute(routeOf(metrics.req)),
                                     metrics.req.statusCode)]
    /\ UNCHANGED <<store, lastCall, solo, head, scan, gap, overlapping,
                   clients, rpcCall, app, reply, second>>

NextMetrics == MetricsMiddleware_use

SpecMetrics == InitMetrics /\ [][NextMetrics]_vars

(***************************************************************************)
(* Properties of upsertBlocks (checked under SpecUpsert)                   *)
(***************************************************************************)
\* the rows of a sequence
Range(q) == {q[i] : i \in 1..Len(q)}

\* every row of the batch satisfies the NOT NULL constraints
AllNotNull(input) == \A i \in 1..Len(input) : NotNull(input[i])

\* the step is a call of upsertBlocks
Called == lastCall' # lastCall \/ store' # store

\* C2: calling upsertMany(S) a second time right after a successful
\* upsertMany(S) raises no error, returns an insert count of zero and leaves
\* the store as the first call left it.
C2_ReplayIsNoOp ==
    [][(Called /\ lastCall'.again /\ lastCall'.status # "StoreUnavailable")
        => /\ lastCall'.status = "ok"
           /\ lastCall'.count = 0
           /\ store' = store]_vars

\* a non-empty batch that inserted rows has been replayed
C2_Witness ==
    /\ lastCall.again
    /\ lastCall.status = "ok"
    /\ lastCall.input # << >>
    /\ Range(lastCall.input) \subseteq store

\* S1 followed by the rows of S2 that S1 does not already hold
OrderedUnion(S1, S2) == S1 \o SelectSeq(S2, LAMBDA r : r \notin Range(S1))

C4_DuplicatesSkippedCountExact ==
    [][Called
        => /\ (lastCall'.status = "ConstraintViolation"
                  => ~AllNotNull(lastCall'.input))
           /\ (lastCall'.status = "ok"
                  => lastCall'.count = Cardinality(store') - Cardinality(store))
           /\ (lastCall'.input = << >> /\ lastCall'.status = "ok"
                  => lastCall'.count = 0 /\ store' = store)]_vars

\* a successful call that skipped a duplicate and inserted another row
C4_Witness ==
    /\ lastCall.status = "ok"
    /\ lastCall.count > 0
    /\ \E i \in 1..Len(lastCall.input) : lastCall.input[i] \notin store

\* the permutations of a sequence
Permutations1(q) ==
    {[i \in 1..Len(q) |-> q[f[i]]] :
        f \in {g \in [1..Len(q) -> 1..Len(q)] :
                  \A i, j \in 1..Len(q) : g[i] = g[j] => i = j}}

\* the last call has the same outcome for every order of its input
SameForEveryOrder ==
    \A p \in Permutations1(lastCall.input) :
        LET r == upsertBlocks(lastCall.before, p)
        IN  /\ r.status = lastCall.status
            /\ r.rows = store
            /\ r.count = lastCall.count

\* no two different rows of the batch share (chainId, number) or
\* (chainId, hash)
NoCollisionInside(input) ==
    \A i, j \in 1..Len(input) :
        input[i] # input[j] => ~Conflicts({input[i]}, input[j])

C6_AtomicBatch ==
    [][Called
        => /\ (lastCall'.status # "ok" => store' = store)
           /\ (lastCall'.status = "ok"
                  => /\ store \subseteq store'
                     /\ \A r \in Range(lastCall'.input) :
                            r \in store' \/ Conflicts(store', r))]_vars

\* a failed call whose batch also held a row that could have been inserted
C6_Witness ==
    /\ lastCall.status = "ConstraintViolation"
    /\ store = lastCall.before
    /\ \E r \in Range(lastCall.input) :
           NotNull(r) /\ ~Conflicts(lastCall.before, r)

(***************************************************************************)
(* Properties of the table under the scheduler (checked under Spec)        *)
(***************************************************************************)
\* C1: in every reachable state, whatever the interleaving of head ticks, gap
\* scans and direct upsertBlocks calls, the store holds at most one row per
\* (chainId, number) and at most one row per (chainId, hash).
C1_UniqueNumberAndHash ==
    \A r, x \in store :
        (r.chainId = x.chainId /\ (r.number = x.number \/ r.hash = x.hash))
            => r = x

\* a head tick has offered a header whose hash is stored at another height of
\* the chain, and the upsert went through without storing it
C1_Witness ==
    /\ head.pc = "idle"
    /\ head.outcome = "ok"
    /\ head.data # << >>
    /\ head.data[1] \notin store
    /\ \E r \in store : /\ r.chainId = head.data[1].chainId
                        /\ r.hash = head.data[1].hash
                        /\ r.number # head.data[1].number

\* C7: a stored row is never changed and never removed: after every step the
\* row found at its (chainId, number) is the same row, with the same hash,
\* parentHash and timestamp, even when the RPC answers a different header
\* for that height.
C7_StoredRowsImmutable ==
    [][\A r \in store : byNumber(store', r.chainId, r.number) = r]_vars

\* a head tick has offered a different header for a stored height, and the
\* upsert went through
C7_Witness ==
    /\ head.pc = "idle"
    /\ head.outcome = "ok"
    /\ head.data # << >>
    /\ \E r \in store : /\ r.chainId = head.data[1].chainId
                        /\ r.number = head.data[1].number
                        /\ r.hash # head.data[1].hash

(***************************************************************************)
(* Properties of reads across chains (checked under SpecChains)            *)
(***************************************************************************)
\* C8: for every chain a, byNumber(a, n), getLatest(a) and
\* findMissingFullRange(a) give the same result on the table as on the table
\* that the same successful calls would have built had the rows of every
\* other chain been left out of them.
C8_NoCrossChainBleed ==
    \A a \in StoreChains :
        /\ getLatest(store, a) = getLatest(solo[a], a)
        /\ findMissingFullRange(store, a) = findMissingFullRange(solo[a], a)
        /\ \A n \in 0..ChainsMaxNumber :
               byNumber(store, a, n) = byNumber(solo[a], a, n)

\* chain 1 has a gap, and chain 2 holds a row at a height of that gap whose
\* hash is also stored under chain 1
C8_Witness ==
    /\ findMissingFullRange(store, 1) # << >>
    /\ \E x \in store : /\ x.chainId = 2
                        /\ x.number \in Range(findMissingFullRange(store, 1))
                        /\ \E r \in store : r.chainId = 1 /\ r.hash = x.hash

(***************************************************************************)
(* Properties of findMissingFullRange (checked under SpecGap)              *)
(***************************************************************************)
\* a call of findMissingFullRange has returned
Returned == gap.pc = "idle" /\ gap.chainId # 0

\* the heights missing strictly between the lowest and the highest stored
\* height of a chain
MissingInside(s, chainId) ==
    {n \in GapNumbers : /\ firstNumber(s, chainId) # NoNumber
                        /\ firstNumber(s, chainId) < n
                        /\ n < lastNumber(s, chainId)
                        /\ n \notin numbers(s, chainId)}

\* C9: the sequence findMissingFullRange returns has at most limit (10)
\* elements, is strictly ascending, and each element lies strictly between
\* the lowest and the highest stored height of the chain; for a chain without
\* rows it is empty.
C9_GapOutputBounded ==
    Returned =>
        /\ Len(gap.missing) <= limit
        /\ \A i, j \in 1..Len(gap.missing) :
               i < j => gap.missing[i] < gap.missing[j]
        /\ \A i \in 1..Len(gap.missing) :
               /\ firstNumber(store, gap.chainId) < gap.missing[i]
               /\ gap.missing[i] < lastNumber(store, gap.chainId)
        /\ (numbers(store, gap.chainId) = {} => gap.missing = << >>)

\* a call returned limit heights although more were missing
C9_Witness ==
    /\ Returned
    /\ Len(gap.missing) = limit
    /\ Cardinality(MissingInside(store, gap.chainId)) > limit

\* C10: when at most limit (10) heights are missing strictly between the
\* lowest and the highest stored height, a call during which no row is
\* written returns exactly those heights, in ascending order, whatever the
\* number of separate gaps.
C10_GapOutputComplete ==
    (/\ Returned
     /\ gap.writes = 0
     /\ Cardinality(MissingInside(store, gap.chainId)) <= limit)
        => gap.missing = Ascending(MissingInside(store, gap.chainId))

\* a call returned heights from three separate gaps
C10_Witness ==
    /\ Returned
    /\ gap.writes = 0
    /\ Cardinality(MissingInside(store, gap.chainId)) <= limit
    /\ Cardinality({n \in Range(gap.missing) :
                       n - 1 \notin Range(gap.missing)}) >= 3

(***************************************************************************)
(* Properties of findMissingFullRange on longer chains (checked under      *)
(* SpecTrunc)                                                              *)
(***************************************************************************)
\* the heights of a chain that are not stored although a lower and a higher
\* one are
MissingHeights(s, chainId) ==
    IF numbers(s, chainId) = {} THEN {}
    ELSE {n \in firstNumber(s, chainId)..lastNumber(s, chainId) :
             n \notin numbers(s, chainId)}

\* C11: when more than limit (10) heights are missing inside the stored range
\* of a chain, findMissingFullRange returns exactly limit heights, and they
\* are the limit smallest missing heights in ascending order.
C11_GapOutputTruncated ==
    (/\ Returned
     /\ Cardinality(MissingHeights(store, gap.chainId)) > limit)
        => /\ Len(gap.missing) = limit
           /\ gap.missing =
                  Take(Ascending(MissingHeights(store, gap.chainId)), limit)

\* a call returned limit heights taken from two gaps and left out the rest
\* of the second gap
C11_Witness ==
    /\ Returned
    /\ Cardinality(MissingHeights(store, gap.chainId)) > limit
    /\ Len(gap.missing) = limit
    /\ \E i \in 1..(limit - 1) : gap.missing[i + 1] > gap.missing[i] + 1
    /\ gap.missing[limit] + 1 \in MissingHeights(store, gap.chainId)

(***************************************************************************)
(* Properties of the gap scan and the head tick (checked under Spec)       *)
(***************************************************************************)
\* the step is the settling of the gap scan's upsertBlocks call
ScanUpserts == scan.pc = "upsertBlocks" /\ scan' # scan

\* C12: every row a gap scan persists lies strictly between the lowest and
\* the highest height the scan read for the chain, and the scan's upsert
\* changes neither the lowest nor the highest stored height of the chain.
C12_ScanNeverExtendsRange ==
    [][ScanUpserts
        => /\ \A r \in store' \ store :
                  /\ r.chainId = Current(scan)
                  /\ scan.first < r.number
                  /\ r.number < scan.last
           /\ firstNumber(store', Current(scan))
                  = firstNumber(store, Current(scan))
           /\ lastNumber(store', Current(scan))
                  = lastNumber(store, Current(scan))]_vars

\* a gap scan has persisted a row
C12_Witness ==
    /\ scan.pc = "idle"
    /\ scan.outcome = "ok"
    /\ scan.data # << >>
    /\ scan.data[1] \in store
    /\ firstNumber(store, 1) < scan.data[1].number
    /\ scan.data[1].number < lastNumber(store, 1)

\* the step is the settling without error of the head tick's upsertBlocks
\* call, which ends the work unit of the chain
TickUpsertsOk ==
    /\ head.pc = "upsertBlocks"
    /\ head' # head
    /\ upsertBlocks(store, head.data).status = "ok"
    /\ store' = upsertBlocks(store, head.data).rows

\* the header the tick has fetched, at the height it has read
TickRow == [head.data[1] EXCEPT !.number = head.first]

\* exactly one row is inserted into a chain without rows, and getLatest
\* returns it
SeedsEmptyChain ==
    numbers(store, Current(head)) = {}
        => /\ Cardinality(store') = Cardinality(store) + 1
           /\ getLatest(store', Current(head)) = TickRow

\* C13 as stated: after a work unit of the head tick that completed without
\* error the store holds, at the height read, a row with the hash and the
\* parentHash the RPC returned; for a chain without rows exactly one row is
\* inserted and getLatest returns it.
C13_HeadPersisted ==
    [][TickUpsertsOk
        => /\ byNumber(store', Current(head), head.first).hash = TickRow.hash
           /\ byNumber(store', Current(head), head.first).parentHash
                  = TickRow.parentHash
           /\ SeedsEmptyChain]_vars

\* C13 amended: the same, unless the chain already holds a row at the height
\* read or a row with the returned hash when the upsert runs; the store is
\* then left unchanged.
C13_HeadPersistedUnlessStored ==
    [][TickUpsertsOk
        => /\ IF \E x \in store : \/ uq_evm_chain_number(x, TickRow)
                                  \/ uq_evm_chain_hash(x, TickRow)
              THEN store' = store
              ELSE /\ store' = store \cup {TickRow}
                   /\ byNumber(store', Current(head), head.first) = TickRow
           /\ SeedsEmptyChain]_vars

\* a head tick has seeded a chain that had no rows
C13_Witness ==
    /\ head.pc = "idle"
    /\ head.outcome = "ok"
    /\ head.data # << >>
    /\ store = {head.data[1]}

\* the await positions of scanClientTip after getLatest
AfterGetLatest ==
    {"findFirstAsc", "findFirstDesc", "queryRaw", "getBlocks", "upsertBlocks"}

\* C15: for a chain without rows the gap scan skips the chain right after
\* getLatest: it reads no range, requests no block and upserts nothing; no
\* block is requested and no row is upserted by a scan for a chain that has
\* no rows.
C15_ScanNeverSeeds ==
    [][/\ (/\ scan.pc = "getLatest"
            /\ scan' # scan
            /\ numbers(store, Current(scan)) = {})
           => /\ scan'.pc \notin AfterGetLatest
              /\ scan'.log = Append(scan.log, "empty")
              /\ store' = store
       /\ scan'.pc \in {"getBlocks", "upsertBlocks"}
           => numbers(store', Current(scan')) # {}
       /\ ScanUpserts
           => numbers(store, Current(scan)) # {}]_vars

\* a gap scan has skipped a chain without rows after a head tick failed to
\* seed it
C15_Witness ==
    /\ scan.pc = "idle"
    /\ scan.outcome = "empty"
    /\ head.outcome = "error"
    /\ store = {}

\* the step ends a work unit of the head tick / of the gap scan with an error
HeadFails ==
    /\ head.pc # "idle"
    /\ Len(head'.log) = Len(head.log) + 1
    /\ head'.log[Len(head'.log)] = "error"

GapScanFails ==
    /\ scan.pc # "idle"
    /\ Len(scan'.log) = Len(scan.log) + 1
    /\ scan'.log[Len(scan'.log)] = "error"

\* C19: while the head tick and the gap scan run interleaved on one chain,
\* the upsert of either is accepted whatever rows the other has stored in
\* the meantime (it is rejected only for a row breaking NOT NULL), neither
\* handler ends with an error, a failing step of one changes neither the
\* store nor the position and locals of the other, and no stored row is
\* lost.
C19_TimersDoNotDisturb ==
    [][/\ head.pc = "upsertBlocks"
           => \/ upsertBlocks(store, head.data).status = "ok"
              \/ ~AllNotNull(head.data)
       /\ scan.pc = "upsertBlocks"
           => \/ upsertBlocks(store, scan.data).status = "ok"
              \/ ~AllNotNull(scan.data)
       /\ head'.outcome # "raised" /\ scan'.outcome # "raised"
       /\ HeadFails => (scan' = scan /\ store' = store)
       /\ GapScanFails => (head' = head /\ store' = store)
       /\ store \subseteq store']_vars

\* the gap scan is about to upsert a height that the head tick has stored
\* since the scan found it missing
C19_Witness ==
    /\ scan.pc = "upsertBlocks"
    /\ head.pc = "idle"
    /\ head.outcome = "ok"
    /\ head.data # << >>
    /\ head.data[1] \in store
    /\ head.data[1].number = scan.data[1].number
    /\ head.data[1].hash # scan.data[1].hash

(***************************************************************************)
(* Properties of the head tick over several chains (checked under          *)
(* SpecTicks)                                                              *)
(***************************************************************************)
\* the step ends the work unit of a chain of the head tick
TickEnds == head.pc # "idle" /\ Len(head'.log) = Len(head.log) + 1

\* the step ends the work unit with an error
TickFails == TickEnds /\ head'.log[Len(head'.log)] = "error"

\* C14: a failing step of the head tick for one chain stores nothing and does
\* not end the handler with an error: the loop goes on with the next chain;
\* a chain whose steps succeed has its head upserted whatever happened to
\* the chains before it; when the handler returns, every configured chain
\* has had its work unit.
C14_HeadTickFailureIsolated ==
    [][/\ TickFails
           => /\ store' = store
              /\ head'.outcome # "raised"
              /\ IF Len(head.chains) > 1
                 THEN /\ head'.pc = "getHeadNumber"
                      /\ head'.chains = Tail(head.chains)
                 ELSE head'.pc = "idle"
       /\ (TickEnds /\ ~TickFails)
           => \/ TickRow \in store'
              \/ \E x \in store : \/ uq_evm_chain_number(x, TickRow)
                                  \/ uq_evm_chain_hash(x, TickRow)
       /\ (head'.pc = "idle" /\ head'.log # << >>)
           => Len(head'.log) = Len(severalChainIds)]_vars

\* the first chain failed, and the head of the second chain was persisted in
\* the same run
C14_Witness ==
    /\ head.pc = "idle"
    /\ head.log = << "error", "ok" >>
    /\ head.data # << >>
    /\ store = {head.data[1]}
    /\ head.data[1].chainId = severalChainIds[2]

(***************************************************************************)
(* Properties of the gap scan alone (checked under SpecFill)               *)
(***************************************************************************)
\* the step is the settling without error of the scan's upsertBlocks call
ScanUpsertsOk ==
    /\ ScanUpserts
    /\ Len(scan'.log) = Len(scan.log) + 1
    /\ scan'.log[Len(scan'.log)] = "ok"

\* C16: when at most limit (10) heights are missing inside the stored range
\* and a block came back for each of them, the gap scan that completes
\* leaves every one of those heights stored with the hash the endpoint
\* returned for it and no height missing, so that a second scan finds
\* nothing to fetch and its upsert of the same blocks would insert no row.
C16_GapFilled ==
    [][(/\ ScanUpsertsOk
        /\ Cardinality(MissingHeights(store, Current(scan))) <= limit)
        => /\ {r.number : r \in Range(scan.data)}
                  = MissingHeights(store, Current(scan))
           /\ \A r \in Range(scan.data) :
                  byNumber(store', r.chainId, r.number) = r
           /\ Cardinality(store') = Cardinality(store) + Len(scan.data)
           /\ MissingHeights(store', Current(scan)) = {}
           /\ findMissingFullRange(store', Current(scan)) = << >>
           /\ upsertBlocks(store', scan.data).count = 0]_vars

\* a gap scan has filled two separate gaps, one of them of two heights
C16_Witness ==
    /\ scan.pc = "idle"
    /\ scan.outcome = "ok"
    /\ Len(scan.data) >= 3
    /\ Range(scan.data) \subseteq store
    /\ \E i \in 1..(Len(scan.data) - 1) :
           scan.data[i + 1].number > scan.data[i].number + 1

\* C17: for a chain whose stored heights are contiguous (a single row
\* included) the gap scan ends the chain's work unit when
\* findMissingFullRange returns: it requests no block, upserts nothing and
\* leaves the store unchanged.
C17_ContiguousChainUntouched ==
    [][/\ (/\ scan.pc = "queryRaw"
            /\ scan' # scan
            /\ MissingHeights(store, Current(scan)) = {})
           => /\ scan'.log = Append(scan.log, "complete")
              /\ scan'.pc \notin {"getBlocks", "upsertBlocks"}
              /\ store' = store
       /\ scan'.pc \in {"getBlocks", "upsertBlocks"}
           => MissingHeights(store', Current(scan')) # {}
       /\ (store' # store /\ scan.pc = "upsertBlocks")
           => MissingHeights(store, Current(scan)) # {}]_vars

\* a gap scan has found nothing missing in a chain of three or more rows
C17_Witness ==
    /\ scan.pc = "idle"
    /\ scan.outcome = "complete"
    /\ Cardinality(store) >= 3
    /\ MissingHeights(store, 1) = {}

(***************************************************************************)
(* Properties of the gap scan over several chains (checked under SpecScans)*)
(***************************************************************************)
\* the step ends the work unit of a chain of the gap scan
ScanEnds == scan.pc # "idle" /\ Len(scan'.log) = Len(scan.log) + 1

\* the step ends the work unit with an error
ScanFails == ScanEnds /\ scan'.log[Len(scan'.log)] = "error"

\* C18: when a request of a chain's scan fails or yields no block (or the
\* upsert is rejected) the work unit of the chain ends with the error
\* recorded and the store unchanged, so that none of the headers fetched is
\* persisted; the handler does not end with an error: the loop goes on with
\* the next chain, and when the handler returns every configured chain has
\* had its work unit.
C18_ScanFailureIsolated ==
    [][/\ ScanFails
           => /\ store' = store
              /\ scan'.outcome # "raised"
              /\ IF Len(scan.chains) > 1
                 THEN /\ scan'.pc = "getLatest"
                      /\ scan'.chains = Tail(scan.chains)
                 ELSE scan'.pc = "idle"
       /\ (scan'.pc = "idle" /\ scan'.log # << >>)
           => Len(scan'.log) = Len(severalChainIds)]_vars

\* the scan of the first chain failed with two heights missing, which are
\* still missing, and the scan of the second chain filled its gap
C18_Witness ==
    /\ scan.pc = "idle"
    /\ scan.log = << "error", "ok" >>
    /\ Cardinality(MissingHeights(store, severalChainIds[1])) = 2
    /\ scan.data # << >>
    /\ Range(scan.data) \subseteq store
    /\ MissingHeights(store, severalChainIds[2]) = {}

(***************************************************************************)
(* Properties of the timers (checked under SpecTimers)                     *)
(***************************************************************************)
\* the instances of a handler that have been called and have not returned
Running(p, started) == (IF p.pc = "idle" THEN 0 ELSE 1) + started

\* C20: at any time at most one instance of handleCron and at most one
\* instance of scanTipWindows is executing.
C20_NoReentrancy ==
    /\ Running(head, overlapping.handleCron) <= 1
    /\ Running(scan, overlapping.scanTipWindows) <= 1

(***************************************************************************)
(* Progress of the head tick (checked under SpecTicksFair)                 *)
(***************************************************************************)
\* C21: within one tick the work unit of a chain is dispatched whatever
\* another configured chain does: once handleCron has started its loop over
\* the chains, the work unit of the last configured chain gets dispatched,
\* also when the endpoint of the first chain fails, is slow or never
\* answers.
C21_EveryChainDispatched ==
    (head.pc # "idle" /\ Len(head.chains) = Len(severalChainIds))
        ~> (head.pc # "idle" /\ Current(head) = severalChainIds[2])

\* C22: every work unit terminates and the tick instance completes: an RPC
\* call that does not answer is cancelled at its deadline, so a handleCron
\* that has started always returns.
C22_TickTerminates == (head.pc # "idle") ~> (head.pc = "idle")

(***************************************************************************)
(* Properties of startup and shutdown (checked under SpecApp)              *)
(***************************************************************************)
\* the step issues the upsertBlocks call of a handler
IssuesUpsert ==
    \/ head.pc # "upsertBlocks" /\ head'.pc = "upsertBlocks"
    \/ scan.pc # "upsertBlocks" /\ scan'.pc = "upsertBlocks"

\* the step starts an instance of a handler
Dispatches ==
    \/ head.pc = "idle" /\ head'.pc # "idle"
    \/ scan.pc = "idle" /\ scan'.pc # "idle"

\* C23: after the termination signal no head tick or gap scan is
\* dispatched, and the ticks in flight at the signal have ended before the
\* store connection is closed: no handler issues an upsert against a
\* disconnected store, and no handler is in flight once the store is
\* disconnected by the shutdown.
C23_ShutdownOrdering ==
    [][/\ (Dispatches /\ app.phase # "created") => ~app.signalled
       /\ IssuesUpsert => app.connected
       /\ (app.connected /\ ~app'.connected)
              => (head.pc = "idle" /\ scan.pc = "idle")]_vars

\* C24: module initialisation triggers exactly one gap scan and nothing
\* else: the step that ends the initialisation starts one instance of
\* scanTipWindows over the configured chains, starts no head tick and no
\* further instance, and writes nothing; an instance of handleCron starts
\* only in a step of the running application, when its cron job fires.
C24_StartupScanOnly ==
    [][/\ (app.phase = "created" /\ app'.phase # "created")
           => /\ scan.pc = "idle"
              /\ scan'.pc = "getLatest"
              /\ scan'.chains = configuredChainIds
              /\ head' = head
              /\ head.pc = "idle"
              /\ store' = store
              /\ overlapping' = overlapping
       /\ (head.pc = "idle" /\ head'.pc # "idle")
           => (app.phase = "running" /\ app' = app)]_vars

\* the application has just been initialised: the startup scan awaits its
\* first getLatest, no head tick has run and nothing has been written
C24_Witness ==
    /\ app.phase = "running"
    /\ scan.pc = "getLatest"
    /\ scan.log = << >>
    /\ head = Idle
    /\ store = {}

(***************************************************************************)
(* Properties of the Read API (checked under SpecRead)                     *)
(***************************************************************************)
\* the rows of the chain a request names
RequestedChainRows ==
    {r \in store : r.chainId = ChainIdOf(DecimalValue(reply.chainId))}

\* C25: for every table, GET latest returns the DTO of the row with the
\* greatest number among the chain's rows and GET by-number for (c, n) the
\* DTO of the row stored at exactly (c, n), n being the integer the path
\* writes (0 and heights beyond 32 bits included); when there is no such row
\* both return 200 with { error: "Not found" }.
C25_ReadResults ==
    (reply.store = "answered")
        => /\ reply.status = 200
           /\ IF reply.route = "latest"
              THEN IF RequestedChainRows = {} THEN reply.body = NotFound
                   ELSE \E r \in RequestedChainRows :
                           /\ \A x \in RequestedChainRows :
                                 BigLeq(x.number, r.number)
                           /\ reply.body = toEvmBlockDto(r)
              ELSE LET n == DecimalValue(reply.number)
                   IN  IF \E r \in RequestedChainRows : r.number = n
                       THEN \E r \in RequestedChainRows :
                               r.number = n /\ reply.body = toEvmBlockDto(r)
                       ELSE reply.body = NotFound

\* C26: a request whose chainId or number is not an integer is answered 400
\* and the store is not queried; a store call that fails is answered with a
\* 5xx status; { error: "Not found" } is sent only with status 200 after
\* the store has answered with no row.
C26_ReadErrorOutcomes ==
    (reply.route # "none")
        => /\ (\/ ~IsDecimal(reply.chainId)
               \/ (reply.route = "byNumber" /\ ~IsDecimal(reply.number)))
              => (reply.status = 400 /\ reply.store = "none")
           /\ (reply.store = "failed")
              => (reply.status >= 500 /\ reply.status <= 599)
           /\ (reply.body = NotFound)
              => /\ reply.status = 200
                 /\ reply.store = "answered"
                 /\ reply.row = NoBlock

\* a by-number request for a configured chain with a fraction as number was
\* answered 400
C26_Witness ==
    /\ reply.route = "byNumber"
    /\ reply.chainId = << "1" >>
    /\ reply.number = << "1", ".", "5" >>
    /\ reply.status = 400
    /\ store # {}

\* C27: the DTO of a stored header has exactly the fields number, hash,
\* parentHash and timestamp; hash and parentHash are the stored strings;
\* number and timestamp are decimal numerals of the stored integers:
\* reading them back gives the stored values, whatever their size.
C27_DtoShape ==
    (reply.status = 200 /\ reply.body # NotFound)
        => /\ reply.row \in store
           /\ DOMAIN reply.body = {"number", "hash", "parentHash", "timestamp"}
           /\ reply.body.hash = reply.row.hash
           /\ reply.body.parentHash = reply.row.parentHash
           /\ IsDecimal(reply.body.number)
           /\ IsDecimal(reply.body.timestamp)
           /\ DecimalValue(reply.body.number) = reply.row.number
           /\ DecimalValue(reply.body.timestamp) = reply.row.timestamp

\* GET latest answered with the header stored at height 2^53 + 1, which no
\* JavaScript number holds
C27_Witness ==
    /\ reply.route = "latest"
    /\ reply.status = 200
    /\ reply.row \in store
    /\ reply.row.number = Big(90071992, 54740993)
    /\ reply.body = toEvmBlockDto(reply.row)

(***************************************************************************)
(* Properties of the RPC gateway (checked under SpecGateway)               *)
(***************************************************************************)
\* the chains the gateway has a definition for
KnownChainIds == {1, 10, 137, 42161, 8453, 11155111}

\* the URL the configuration holds for a chain
ConfiguredUrl(chainId) ==
    IF chainId = 1 THEN configGet("RPC_ETH_MAINNET_URL", "")
    ELSE configGet(RPC_CHAIN_URL(chainId), "")

\* C28: headNumber and blockByNumber for a chain id whose URL is empty or
\* that the gateway does not know fail with ChainUnknown, and no call is
\* answered through the definition of another chain.
C28_ChainUnknownSurfaced ==
    (rpcCall.op \in {"getHeadNumber", "getBlockByNumber"})
        => /\ rpcCall.client.chain.id = rpcCall.chainId
           /\ (\/ ConfiguredUrl(rpcCall.chainId) = ""
               \/ rpcCall.chainId \notin KnownChainIds)
              => rpcCall.status = "ChainUnknown"

\* C29: the configured chain ids are fixed at startup: no call of
\* chainName, headNumber or blockByNumber, for whatever chain id, changes
\* what configuredChainIds() returns.
C29_ConfiguredChainIdsFixed ==
    [][getConfiguredChainIds(clients') = getConfiguredChainIds(clients)]_vars

\* C30: the clients map is append-only: chain 1 has its client from the
\* construction on, an entry is never removed, moved or replaced, and an
\* operation on a chain that has a client uses that client.
C30_ClientsAppendOnly ==
    [][/\ MapHas(clients, 1) /\ MapHas(clients', 1)
       /\ Len(clients') >= Len(clients)
       /\ \A i \in 1..Len(clients) : clients'[i] = clients[i]
       /\ (/\ rpcCall' # rpcCall
           /\ rpcCall'.op # "getConfiguredChainIds"
           /\ MapHas(clients, rpcCall'.chainId))
          => rpcCall'.client = MapGet(clients, rpcCall'.chainId)]_vars

\* a client built on demand for chain 10 served a later getHeadNumber, with
\* other clients built in between
C30_Witness ==
    /\ rpcCall.op = "getHeadNumber"
    /\ rpcCall.chainId = 10
    /\ rpcCall.existing
    /\ rpcCall.client = MapGet(clients, 10)
    /\ Len(clients) >= 3
    /\ clients[2].key = 10


(***************************************************************************)
(* Properties of the metrics (checked under SpecMetrics)                   *)
(***************************************************************************)
\* the segments of a path: the text between its slashes
Split(s) ==
    LET starts == {a \in 1..Len(s) :
                      s[a] # "/" /\ (a = 1 \/ s[a - 1] = "/")}
        end(a) == CHOOSE b \in a..Len(s) :
                      /\ \A k \in a..b : s[k] # "/"
                      /\ (b = Len(s) \/ s[b + 1] = "/")
    IN  {SubSeq(s, a, end(a)) : a \in starts}

\* a segment that is digit-only, a UUID, 0x-prefixed hex, 64 hex
\* characters or 40 hex characters
IdLike(segment) ==
    \/ test([fixed |-> << Digit >>, more |-> Digit], segment)
    \/ test([fixed |-> uuid, more |-> {}], segment)
    \/ test([fixed |-> << {"0"}, {"x", "X"}, Hex >>, more |-> Hex], segment)
    \/ test([fixed |-> Rep(Hex, 64), more |-> {}], segment)
    \/ test([fixed |-> Rep(Hex, 40), more |-> {}], segment)

HasIdLike(path) == \E segment \in Split(path) : IdLike(segment)

Observed == metrics.ended

\* C31: the route label recorded for a request has no segment that is
\* digit-only, a UUID, 0x-prefixed hex, 64 hex or 40 hex characters, and
\* the path of a request without such segments is recorded unchanged
C31_RouteNormalized ==
    Observed =>
        /\ ~HasIdLike(metrics.labels.route)
        /\ ~HasIdLike(routeOf(metrics.req))
               => metrics.labels.route = routeOf(metrics.req)

Sample(name, chainId) ==
    IF name \in DOMAIN metrics THEN metrics[name][chainId] ELSE 0

\* C33: a failed work unit of the head tick for chain c increments
\* head_tick_errors_total{chain_id=c} by exactly one and leaves the counters
\* of the other chains unchanged, likewise gap_scan_errors_total for a failed
\* work unit of the gap scan, and the counters never decrease.
C33_ErrorsCounted ==
    [][/\ TickFails
           => \A c \in StoreChains :
                  Sample("head_tick_errors_total", c)'
                      = Sample("head_tick_errors_total", c)
                        + (IF c = Current(head) THEN 1 ELSE 0)
       /\ ScanFails
           => \A c \in StoreChains :
                  Sample("gap_scan_errors_total", c)'
                      = Sample("gap_scan_errors_total", c)
                        + (IF c = Current(scan) THEN 1 ELSE 0)
       /\ \A c \in StoreChains :
              /\ Sample("head_tick_errors_total", c)'
                     >= Sample("head_tick_errors_total", c)
              /\ Sample("gap_scan_errors_total", c)'
                     >= Sample("gap_scan_errors_total", c)]_vars


(***************************************************************************)
(* Order of the steps of a work unit (checked under SpecTicks)             *)
(***************************************************************************)
\* the place of an await of tick in the order of its steps
StepRank(pc) ==
    IF pc = "getHeadNumber" THEN 1
    ELSE IF pc = "getBlockByNumber" THEN 2
    ELSE IF pc = "upsertBlocks" THEN 3
    ELSE 0

\* C34: within the work unit of the head tick for a chain the steps come in
\* order and none is retried: getBlockByNumber is issued when getHeadNumber
\* has resolved, with the height it returned; upsertBlocks is issued when
\* getBlockByNumber has resolved, with the block of that height; success is
\* logged only when the upsert has returned; and a step that fails ends the
\* work unit: the handler goes on with the next chain or returns.
C34_TickStepsOrdered ==
    [][head' # head /\ head.pc # "idle"
           => \/ /\ ~TickEnds
                 /\ head'.chains = head.chains
                 /\ StepRank(head'.pc) = StepRank(head.pc) + 1
                 /\ head'.pc = "getBlockByNumber" => head'.first \in Numbers
                 /\ head'.pc = "upsertBlocks"
                        => /\ head'.first = head.first
                           /\ Len(head'.data) = 1
                           /\ head'.data[1].chainId = Current(head)
                           /\ head'.data[1].number = head.first
              \/ /\ TickEnds
                 /\ head'.log[Len(head'.log)] = "ok"
                        => head.pc = "upsertBlocks"
                 /\ \/ head'.pc = "idle" /\ Len(head.chains) = 1
                    \/ /\ head'.pc = "getHeadNumber"
                       /\ head'.chains = Tail(head.chains)
                       /\ head'.chains # << >>]_vars

\* the handler has returned after a work unit that failed and one that
\* stored its block
C34_Witness ==
    /\ head.pc = "idle"
    /\ head.log = << "error", "ok" >>
    /\ store # {}


(***************************************************************************)
(* Block requests of a gap scan (checked under SpecRepair)                 *)
(***************************************************************************)
\* C35: the gap scan of a chain asks getBlockByNumber for the heights
\* findMissingFullRange returned and for no other, each of them once, so
\* that at most limit (10) requests of the chain's scan are in flight; one
\* block per request is mapped for the upsert.
C35_ScanRequestsBounded ==
    [][/\ scan'.pc = "getBlocks" /\ scan.pc # "getBlocks"
           => /\ scan.pc = "queryRaw"
              /\ scan'.missing = findMissingFullRange(store, Current(scan))
              /\ Len(scan'.missing) <= limit
              /\ \A i, j \in 1..Len(scan'.missing) :
                     scan'.missing[i] = scan'.missing[j] => i = j
       /\ scan.pc = "getBlocks" /\ scan'.pc = "upsertBlocks"
           => /\ Len(scan'.data) = Len(scan.missing)
              /\ \A i \in 1..Len(scan.missing) :
                     scan'.data[i].number = scan.missing[i]]_vars

\* more than limit heights are missing and the scan has limit requests in
\* flight
C35_Witness ==
    /\ scan.pc = "getBlocks"
    /\ Len(scan.missing) = limit
    /\ Cardinality(MissingHeights(store, Current(scan))) > limit


(***************************************************************************)
(* findMissingFullRange with writes between its reads (checked under       *)
(* SpecGap)                                                                *)
(***************************************************************************)
\* the step is the raw query of a findMissingFullRange call, which returns
GapQueryRuns == gap.pc = "queryRaw" /\ gap'.pc = "idle"

\* C36: a call of findMissingFullRange returns no height twice, and every
\* height it returns had no row of the chain when its gap query ran, also
\* when rows of the chain were written between its reads of the lowest
\* height, of the highest height and the gap query.
C36_GapStableUnderWrites ==
    [][GapQueryRuns
           => /\ \A i, j \in 1..Len(gap'.missing) :
                     gap'.missing[i] = gap'.missing[j] => i = j
              /\ \A i \in 1..Len(gap'.missing) :
                     gap'.missing[i] \notin numbers(store, gap.chainId)]_vars

\* a call has returned heights after a row of its chain was written above
\* the highest height it had read
C36_Witness ==
    /\ Returned
    /\ gap.chainId = 1
    /\ gap.writes > 0
    /\ gap.missing # << >>
    /\ lastNumber(store, 1) > gap.last


(***************************************************************************)
(* Repair with a height the endpoint has no block for (checked under       *)
(* SpecRepairNotFoundFair)                                                 *)
(***************************************************************************)
\* C37: a missing height for which getBlockByNumber keeps answering
\* NotFound does not stop the repair of the chain: every other missing
\* height, whose request succeeds, is eventually stored by this or a later
\* gap scan.
C37_RepairDespiteNotFound ==
    <>(\A n \in (1..(RepairMaxNumber - 1)) \ {NotFoundNumber} :
           n \in numbers(store, 1))

\* the smaller of two numbers
Min(a, b) == IF a < b THEN a ELSE b

\* C38: when the head of a chain does not advance and every request for a
\* missing height succeeds with a block whose hash is not stored yet, every
\* gap scan that finds heights missing stores min(limit, missing) of them
\* and nothing else is written, a scan returns only after such an upsert or
\* when nothing is missing, the stored heights are eventually contiguous for
\* good, and from then on a scan issues no block request and writes nothing.
C38_EventualGapRepair ==
    /\ [][/\ scan.pc = "upsertBlocks" =>
                Cardinality(MissingHeights(store', 1)) =
                    Cardinality(MissingHeights(store, 1))
                    - Min(limit, Cardinality(MissingHeights(store, 1)))
          /\ scan.pc # "upsertBlocks" => store' = store
          /\ scan.pc # "idle" /\ scan'.pc = "idle" =>
                \/ scan.pc = "upsertBlocks" /\ scan'.outcome = "ok"
                \/ /\ MissingHeights(store, 1) = {}
                   /\ scan'.outcome = "complete"
          /\ MissingHeights(store, 1) = {} =>
                /\ store' = store
                /\ scan'.pc \notin {"getBlocks", "upsertBlocks"}]_vars
    /\ <>[](MissingHeights(store, 1) = {})

\* a scan has returned after storing limit heights of a chain that had more
\* than limit heights missing: one is left for the next scan
C38_Witness ==
    /\ scan.pc = "idle"
    /\ scan.outcome = "ok"
    /\ Len(scan.data) = limit
    /\ Cardinality(MissingHeights(store, 1)) = 1

(***************************************************************************)
(* Properties of two instances of one handler (checked under SpecOverlap)  *)
(***************************************************************************)
\* both instances of the handler have returned
BothReturned(handler, p) ==
    second.handler = handler /\ p.pc = "idle" /\ second.instance.pc = "idle"

\* the table after one scanClientTip(chainId) run alone on table s, the
\* endpoint answering every request with the block of the chain
scanClientTipAlone(s, chainId) ==
    LET missing == missingBetween(s, chainId, firstNumber(s, chainId),
                                  lastNumber(s, chainId))
    IN  upsertBlocks(s, [i \in 1..Len(missing) |->
                            mapped(chainId,
                                   Block(missing[i],
                                         HashOfNumber(missing[i])))]).rows

\* the two instances of handleCron got the same answers from the endpoint,
\* a block in each
SameAnswers ==
    /\ head.data = second.instance.data
    /\ \A i \in 1..Len(head.data) : NotNull(head.data[i])

\* every height of a chain is stored at most once
StoredOnce == \A x, y \in store : uq_evm_chain_number(x, y) => x = y

\* no instance ended a work unit in the catch block
NoneFailed(p) ==
    {p.outcome, second.instance.outcome} \subseteq {"ok", "complete"}

\* C39: when two gap scans, or two head ticks that get the same answers, run
\* concurrently on the same chain, then however their steps interleave both
\* return without error, no height is stored twice, and the table they leave
\* is the one a single instance leaves when run alone on the table the two
\* were called on.
C39_OverlapHarmless ==
    /\ StoredOnce
    /\ BothReturned("scanTipWindows", scan) =>
          /\ NoneFailed(scan)
          /\ store = scanClientTipAlone(second.store, 1)
    /\ BothReturned("handleCron", head) /\ SameAnswers =>
          /\ NoneFailed(head)
          /\ store = upsertBlocks(second.store, head.data).rows

\* C39 (amended): as C39, but the table two overlapping gap scans leave is
\* the one a single scan leaves or the one two scans run one after the other
\* leave: the instance whose findMissingFullRange query runs after the upsert
\* of the other goes on with the next missing heights.
C39_OverlapHarmlessOrSequential ==
    /\ StoredOnce
    /\ BothReturned("scanTipWindows", scan) =>
          /\ NoneFailed(scan)
          /\ store \in {scanClientTipAlone(second.store, 1),
                        scanClientTipAlone(
                            scanClientTipAlone(second.store, 1), 1)}
    /\ BothReturned("handleCron", head) /\ SameAnswers =>
          /\ NoneFailed(head)
          /\ store = upsertBlocks(second.store, head.data).rows

\* two gap scans have returned that both fetched and upserted the same
\* heights: the rows of the one that came second were skipped as duplicates
C39_Witness ==
    /\ BothReturned("scanTipWindows", scan)
    /\ scan.outcome = "ok"
    /\ second.instance.outcome = "ok"
    /\ scan.data # << >>
    /\ scan.data = second.instance.data
    /\ store # second.store

====
